---- MODULE Spec2Model ----
(***************************************************************************)
(* Model of the family finance tracker: the account / data-context model   *)
(* (authService), the persistence gateway (dataService), the handlers of   *)
(* AuthenticatedApp that keep the in-memory transaction and category sets, *)
(* and the installment expander of handleAddDespesa.                       *)
(*                                                                         *)
(* Storage is the set of rows of the three tables of supabase_schema.sql.  *)
(* A JavaScript array whose elements carry unique ids and whose order no   *)
(* handler reads is a set of records.  JavaScript's undefined and null are *)
(* two values: JSON.stringify drops an undefined property from a request   *)
(* body, and keeps a null one.                                             *)
(***************************************************************************)
EXTENDS Integers, Sequences, FiniteSets, TLC

\* ---------------------------------------------------------------- bounds
\* most transaction rows a behaviour creates
MaxTx == 2
\* most category rows a behaviour creates beyond the starter set
MaxCatAdds == 1
\* most category edits a behaviour saves
MaxCatEdits == 1
\* most transaction rows a behaviour of SpecDel / of SpecCat creates
MaxTxDel == 1
MaxTxCat == 1
\* largest installment count drawn in the stateful specifications
MaxParcelas == 2
\* largest installment count drawn for the installment expander alone
MaxParcelasFn == 4
\* most member accounts a behaviour creates
MaxMembers == 2
\* most times a behaviour of SpecAcct seeds the starter categories
MaxSeeds == 2
\* most times a behaviour that starts with the owner's categories seeded seeds again
MaxReseeds == 1
\* most transaction rows a behaviour of SpecShare creates
MaxTxShare == 1
\* transactions added where every storing handler runs
MaxTxStore == 1
\* transactions in the list the dashboard summarises
MaxDash == 3
\* categories and transactions given to the category budget report
MaxRepCats == 2
MaxRepTx == 2
\* transactions added beside the financial analysis
MaxTxInsight == 1
\* transactions added where bills are marked as paid
MaxTxPay == 2
\* transactions in the list the yearly chart is drawn from
MaxChart == 2
\* transactions added where the owner and its members each work on their data
MaxTxIso == 2

\* ---------------------------------------------------------------- values
\* undefined and null where a string is expected (payment date, observation,
\* parent reference), and where an object is expected (installments, account)
Undef == "undefined"
Null == "null"
Absent(v) == v \in {Undef, Null}
UndefObj == [js |-> "undefined"]
NullObj == [js |-> "null"]
AbsentObj(v) == v \in {UndefObj, NullObj}

Types == {"income", "expense"}
Statuses == {"paid", "pending"}

\* getCurrentLocalDateString(): today, as the string the handlers store
Today == "2024-01-31"
\* a payment date the user types that is not today
Earlier == "2024-01-15"
\* A due date "YYYY-MM-DD" is the triple <<y, m, d>> that
\* date.split('-').map(Number) reads from it and that the padded template
\* `${y}-${m}-${d}` writes back.
DueToday == <<2024, 1, 31>>

\* ------------------------------------------------------- calendar (JS Date)
IsLeap(y) == (y % 4 = 0 /\ y % 100 # 0) \/ y % 400 = 0

DaysInMonth(y, m) ==
  IF m = 2 THEN (IF IsLeap(y) THEN 29 ELSE 28)
  ELSE IF m \in {4, 6, 9, 11} THEN 30 ELSE 31

\* a date that clamps to the last day of a short month instead of carrying
MutJsDateClamps(year, monthIndex, day) ==
  LET y0 == year + (monthIndex \div 12)
      m0 == (monthIndex % 12) + 1
      dim == DaysInMonth(y0, m0)
  IN  IF day <= dim THEN <<y0, m0, day>> ELSE <<y0, m0, dim>>

\* new Date(year, monthIndex, day) read back with getFullYear / getMonth()+1 /
\* getDate: a month index past 11 carries into the year, a day past the end of
\* the month carries into the next month (day <= 31, so at most one month).
JsDate(year, monthIndex, day) ==
  LET y0 == year + (monthIndex \div 12)
      m0 == (monthIndex % 12) + 1
      dim == DaysInMonth(y0, m0)
  IN  IF day <= dim THEN <<y0, m0, day>>
      ELSE IF m0 = 12 THEN <<y0 + 1, 1, day - dim>>
      ELSE <<y0, m0 + 1, day - dim>>

\* ------------------------------------------------- installment expander
\* an expansion that copies status, payment date and observation to every record
MutInstallmentCopiesAll(amount, type, category, status, date, paymentDate, n, observation, i) ==
  [ amount       |-> [num |-> amount, den |-> n],
    type         |-> type,
    category     |-> category,
    date         |-> JsDate(date[1], (date[2] - 1) + i, date[3]),
    status       |-> status,
    paymentDate  |-> IF status = "paid" THEN paymentDate ELSE Undef,
    observation  |-> observation,
    installments |-> [current |-> i + 1, total |-> n] ]

\* One record of newTransactions, before its id is drawn.
Installment(amount, type, category, status, date, paymentDate, n, observation, i) ==
  [ amount       |-> [num |-> amount, den |-> n],
    type         |-> type,
    category     |-> category,
    date         |-> JsDate(date[1], (date[2] - 1) + i, date[3]),
    status       |-> IF i = 0 THEN status ELSE "pending",
    paymentDate  |-> IF i = 0 /\ status = "paid" THEN paymentDate ELSE Undef,
    observation  |-> IF i = 0 THEN observation ELSE Undef,
    installments |-> [current |-> i + 1, total |-> n] ]

Single(amount, type, category, status, date, paymentDate, observation) ==
  [ amount       |-> [num |-> amount, den |-> 1],
    type         |-> type,
    category     |-> category,
    date         |-> date,
    status       |-> status,
    paymentDate  |-> IF status = "paid" /\ type = "expense" THEN paymentDate ELSE Undef,
    observation  |-> observation,
    installments |-> UndefObj ]

\* the guard of the installment branch: type === 'expense' && installmentsCount > 1
MutExpandsAlways(type, n) == n > 1

Expands(type, n) == type = "expense" /\ n > 1

\* the bound i < installmentsCount of the loop, as the last index
LastIndex(n) == n - 1

\* newTransactions of handleAddDespesa, in push order
NewTransactions(amount, type, category, status, date, paymentDate, n, observation) ==
  IF Expands(type, n)
  THEN [ k \in 1..(LastIndex(n) + 1) |->
           Installment(amount, type, category, status, date, paymentDate, n, observation, k - 1) ]
  ELSE << Single(amount, type, category, status, date, paymentDate, observation) >>


\* ------------------------------------------------------------------ state
VARIABLES
  authUsers,      \* the provider's authentication identities
  authSession,    \* the client's authentication session: a user id, or Null
  dbUsers,        \* rows of app_users
  dbCats,         \* rows of categories
  dbTx,           \* rows of transactions
  cache,          \* localStorage[CURRENT_USER_KEY]: a User, or NullObj
  logoutJob,      \* TRUE while authService.logout() awaits its signOut request
  user,           \* App's user state: a User, or NullObj
  ghost,          \* history: how the active account was entered, the account
                  \* object the owner held when the session last switched to a
                  \* member, and the registrations waiting for a first login
  categories,     \* AuthenticatedApp's categories state
  despesas,       \* AuthenticatedApp's despesas state
  confirmModal,   \* AuthenticatedApp's confirmModal state
  connectionError,\* AuthenticatedApp's connectionError state
  loadingData,    \* AuthenticatedApp's loadingData state
  seedJob,        \* the loadData run awaiting seedCategories, or NullObj
  otherJob,       \* the same, of another session on the same data context
  addJob,         \* the handleAddDespesa call awaiting its inserts, or NullObj
  ids,            \* how many ids of each kind uuidv4 / the database have drawn
  last,           \* the storage calls and the toast of the last step
  insight,        \* AIInsight's analysis, loading and error states
  fnIn, built     \* a pure computation alone (the installment expander, the
                  \* dashboard summary): its arguments and its result

authVars == <<authUsers, authSession, dbUsers, cache, logoutJob, user, ghost>>
dataVars == <<dbCats, dbTx, categories, despesas, confirmModal, connectionError, loadingData, seedJob, otherJob, addJob>>
fnVars == <<fnIn, built, insight>>
vars == <<authVars, dataVars, ids, last, fnVars>>

\* --------------------------------------------------------- storage policy
\* "Users can manage categories / transactions in their context" (using clause)
CanAccessContext(uid, ctx) ==
  uid # Null /\ (ctx = uid \/ \E u \in dbUsers : u.id = ctx /\ u.parent_id = uid)

\* ------------------------------------------------------ persistence gateway
\* A property whose value is undefined is not in the JSON body; an insert
\* stores the column default (NULL) for a column the body does not name.
InsertDefault(v) == IF v = Undef THEN Null ELSE v
InsertDefaultObj(v) == IF v = UndefObj THEN NullObj ELSE v

\* the row dataService.addTransaction inserts for a Despesa
TxRow(d, dataContextId) ==
  [ id              |-> d.id,
    amount          |-> d.amount,
    type            |-> d.type,
    category        |-> d.category,
    status          |-> d.status,
    date            |-> d.date,
    payment_date    |-> InsertDefault(d.paymentDate),
    observation     |-> InsertDefault(d.observation),
    installments    |-> InsertDefaultObj(d.installments),
    data_context_id |-> dataContextId ]

\* the Despesa that addTransaction and fetchTransactions make of a row:
\* { ...row, paymentDate: row.payment_date }
DespesaOfRow(r) ==
  [ id |-> r.id, amount |-> r.amount, type |-> r.type, category |-> r.category,
    status |-> r.status, date |-> r.date, paymentDate |-> r.payment_date,
    observation |-> r.observation, installments |-> r.installments ]

\* dataService.updateTransaction: the update names the columns whose value is
\* not undefined, on the row whose id matches
UpdatedTxRow(r, d) ==
  [ r EXCEPT
      !.amount = d.amount, !.type = d.type, !.category = d.category,
      !.status = d.status, !.date = d.date,
      !.payment_date = IF d.paymentDate = Undef THEN @ ELSE d.paymentDate,
      !.observation = IF d.observation = Undef THEN @ ELSE d.observation,
      !.installments = IF d.installments = UndefObj THEN @ ELSE d.installments ]

UpdateTransaction(rows, d, uid) ==
  { IF r.id = d.id /\ CanAccessContext(uid, r.data_context_id)
    THEN UpdatedTxRow(r, d) ELSE r : r \in rows }

\* dataService.markAsPaid: one update ... in('id', ids)
\* markAsPaid without its .in('id', ids) filter
MutMarkAsPaidRowsUnfiltered(rows, idSet, paymentDate, uid) ==
  { IF CanAccessContext(uid, r.data_context_id)
    THEN [r EXCEPT !.status = "paid", !.payment_date = paymentDate] ELSE r : r \in rows }

MarkAsPaidRows(rows, idSet, paymentDate, uid) ==
  { IF r.id \in idSet /\ CanAccessContext(uid, r.data_context_id)
    THEN [r EXCEPT !.status = "paid", !.payment_date = paymentDate] ELSE r : r \in rows }

\* dataService.deleteTransaction / deleteCategory: delete().eq('id', id)
\* a delete without its .eq('id', id) filter: every row the policy lets through
MutDeleteEveryRow(rows, id, uid) ==
  { r \in rows : ~CanAccessContext(uid, r.data_context_id) }

DeleteById(rows, id, uid) ==
  { r \in rows : ~(r.id = id /\ CanAccessContext(uid, r.data_context_id)) }

\* dataService.fetchTransactions / fetchCategories
FetchTransactions(dataContextId, uid) ==
  { DespesaOfRow(r) : r \in { q \in dbTx : q.data_context_id = dataContextId
                                         /\ CanAccessContext(uid, dataContextId) } }

CategoryOfRow(r) == [ id |-> r.id, name |-> r.name, type |-> r.type, budget |-> r.budget ]

CatRow(c, dataContextId) ==
  [ id |-> c.id, name |-> c.name, type |-> c.type, budget |-> c.budget,
    data_context_id |-> dataContextId ]

FetchCategories(dataContextId, uid) ==
  { CategoryOfRow(r) : r \in { q \in dbCats : q.data_context_id = dataContextId
                                           /\ CanAccessContext(uid, dataContextId) } }

\* dataService.updateCategory: update({name, type, budget}).eq('id', id)
UpdateCategory(rows, c, uid) ==
  { IF r.id = c.id /\ CanAccessContext(uid, r.data_context_id)
    THEN [r EXCEPT !.name = c.name, !.type = c.type, !.budget = c.budget] ELSE r
    : r \in rows }


\* ---------------------------------------------------------------- accounts
\* a row of app_users (the password placeholder is not modelled)
AccountRow(id, name, email, parentId, dataContextId) ==
  [ id |-> id, name |-> name, email |-> email, parent_id |-> parentId,
    data_context_id |-> dataContextId ]

\* the User that login and switchUser build:
\* { ...profile, dataContextId: profile.data_context_id, parentId: profile.parent_id, members }
MutUserOfProfileNoParent(profile, members) ==
  [ id |-> profile.id, name |-> profile.name, email |-> profile.email,
    parent_id |-> profile.parent_id, data_context_id |-> profile.data_context_id,
    dataContextId |-> profile.data_context_id,
    parentId |-> Undef,
    members |-> members ]
MutUserOfProfileOwnContext(profile, members) ==
  [ id |-> profile.id, name |-> profile.name, email |-> profile.email,
    parent_id |-> profile.parent_id, data_context_id |-> profile.data_context_id,
    dataContextId |-> profile.id,
    parentId |-> profile.parent_id,
    members |-> members ]
UserOfProfile(profile, members) ==
  [ id |-> profile.id, name |-> profile.name, email |-> profile.email,
    parent_id |-> profile.parent_id, data_context_id |-> profile.data_context_id,
    dataContextId |-> profile.data_context_id,
    parentId |-> profile.parent_id,
    members |-> members ]

\* the User that register builds: { ...profile, dataContextId, members: [] }
UserOfRegister(profile) ==
  [ id |-> profile.id, name |-> profile.name, email |-> profile.email,
    parent_id |-> profile.parent_id, data_context_id |-> profile.data_context_id,
    dataContextId |-> profile.data_context_id,
    parentId |-> Undef,
    members |-> {} ]

\* ------------------------------------------------------------ AuthenticatedApp
\* what a step issued and showed: its storage calls and its toast
Trace(calls, toast) == [calls |-> calls, toast |-> toast]

ClosedModal == [isOpen |-> FALSE, action |-> "none", id |-> 0]

\* the form and the lists are under the confirmation overlay while it is open
CanClick == user # NullObj /\ ~loadingData /\ ~connectionError /\ ~confirmModal.isOpen

Amounts == {90}

WithId(r, id) ==
  [ id |-> id, amount |-> r.amount, type |-> r.type, category |-> r.category,
    status |-> r.status, date |-> r.date, paymentDate |-> r.paymentDate,
    observation |-> r.observation, installments |-> r.installments ]

\* DespesaForm: the options of the category select
AvailableCategories(type) == { c \in categories : c.type = "both" \/ c.type = type }

\* DespesaForm.handleSubmit: finalPaymentDate
FinalPaymentDate(type, status, paymentDate) ==
  IF type = "expense" /\ status = "paid" THEN paymentDate ELSE Undef

\* DespesaForm.handleSubmit (new) and handleAddDespesa up to the inserts it sends:
\* Promise.all over dataService.addTransaction, one request per record
AddDespesaSubmit(cap, amount, type, category, status, paymentDate, n) ==
  LET recs == NewTransactions(amount, type, category, status, DueToday,
                              FinalPaymentDate(type, status, paymentDate), n, "")
  IN  /\ CanClick
      /\ addJob = NullObj
      /\ ids.tx + Len(recs) <= cap
      /\ addJob' = [ dataContextId |-> user.dataContextId,
                     items |-> [ k \in 1..Len(recs) |->
                                   [ d |-> WithId(recs[k], ids.tx + k), state |-> "sent" ] ] ]
      /\ ids' = [ids EXCEPT !.tx = @ + Len(recs)]
      /\ last' = Trace({"addTransaction"}, "none")
      /\ UNCHANGED <<authVars, dbCats, dbTx, categories, despesas, confirmModal, connectionError, loadingData, seedJob, otherJob, fnVars>>

\* one insert of the batch reaches storage, or fails
InsertResolves(k, ok) ==
  /\ addJob # NullObj
  /\ k \in DOMAIN addJob.items
  /\ addJob.items[k].state = "sent"
  /\ LET stored == ok /\ CanAccessContext(authSession, addJob.dataContextId)
     IN  /\ dbTx' = IF stored
                    THEN dbTx \cup { TxRow(addJob.items[k].d, addJob.dataContextId) }
                    ELSE dbTx
         /\ addJob' = [addJob EXCEPT !.items[k].state = IF stored THEN "ok" ELSE "failed"]
  /\ last' = Trace({}, "none")
  /\ UNCHANGED <<authVars, dbCats, categories, despesas, confirmModal, connectionError, loadingData, seedJob, otherJob, ids, fnVars>>

\* handleAddDespesa showing the records whose insert succeeded whatever the others did
MutAddDespesaSettlesKeepsStored ==
  /\ addJob # NullObj
  /\ \A k \in DOMAIN addJob.items : addJob.items[k].state # "sent"
  /\ despesas' = despesas \cup
        { DespesaOfRow(TxRow(addJob.items[k].d, addJob.dataContextId))
          : k \in { j \in DOMAIN addJob.items : addJob.items[j].state = "ok" } }
  /\ last' = IF \A k \in DOMAIN addJob.items : addJob.items[k].state = "ok"
             THEN Trace({}, "success") ELSE Trace({}, "error")
  /\ addJob' = NullObj
  /\ UNCHANGED <<authVars, dbCats, dbTx, categories, confirmModal, connectionError, loadingData, seedJob, otherJob, ids, fnVars>>

\* handleAddDespesa after Promise.all: setDespesas([...validResults, ...prev]),
\* or the catch when an insert threw
AddDespesaSettles ==
  /\ addJob # NullObj
  /\ \A k \in DOMAIN addJob.items : addJob.items[k].state # "sent"
  /\ IF \A k \in DOMAIN addJob.items : addJob.items[k].state = "ok"
     THEN /\ despesas' = despesas \cup
               { DespesaOfRow(TxRow(addJob.items[k].d, addJob.dataContextId))
                 : k \in DOMAIN addJob.items }
          /\ last' = Trace({}, "success")
     ELSE /\ despesas' = despesas
          /\ last' = Trace({}, "error")
  /\ addJob' = NullObj
  /\ UNCHANGED <<authVars, dbCats, dbTx, categories, confirmModal, connectionError, loadingData, seedJob, otherJob, ids, fnVars>>

\* finalDespesa of handleUpdateDespesa
FinalDespesa(updatedDespesa) ==
  [ updatedDespesa EXCEPT
      !.paymentDate = IF updatedDespesa.status = "paid" /\ updatedDespesa.type = "expense"
                      THEN @ ELSE Undef ]

\* DespesaForm.handleSubmit (edit) and handleUpdateDespesa
UpdateDespesa(t, category, status, paymentDate, ok) ==
  LET submitted == [ t EXCEPT
                       !.category = category,
                       !.status = status,
                       !.paymentDate = FinalPaymentDate(t.type, status, paymentDate),
                       !.observation = IF Absent(t.observation) THEN "" ELSE @ ]
      finalDespesa == FinalDespesa(submitted)
  IN  /\ CanClick
      /\ t \in despesas
      /\ IF ok
         THEN /\ dbTx' = UpdateTransaction(dbTx, finalDespesa, authSession)
              /\ despesas' = { IF x.id = finalDespesa.id THEN finalDespesa ELSE x : x \in despesas }
              /\ last' = Trace({"updateTransaction"}, "success")
         ELSE /\ UNCHANGED <<dbTx, despesas>>
              /\ last' = Trace({"updateTransaction"}, "error")
      /\ UNCHANGED <<authVars, dbCats, categories, confirmModal, connectionError, loadingData, seedJob, otherJob, addJob, ids, fnVars>>

\* `updated` of handleToggleStatus
Toggled(t) ==
  LET newStatus == IF t.status = "paid" THEN "pending" ELSE "paid"
  IN  [ t EXCEPT
          !.status = newStatus,
          !.paymentDate = IF newStatus = "paid"
                          THEN (IF Absent(t.paymentDate) THEN Today ELSE t.paymentDate)
                          ELSE Undef ]

\* handleToggleStatus with the list updated before the request is answered
MutToggleStatusOptimistic(t, ok) ==
  /\ CanClick
  /\ t \in despesas
  /\ t.type = "income"
  /\ despesas' = { IF x.id = t.id THEN Toggled(t) ELSE x : x \in despesas }
  /\ IF ok
     THEN /\ dbTx' = UpdateTransaction(dbTx, Toggled(t), authSession)
          /\ last' = Trace({"updateTransaction"}, "success")
     ELSE /\ UNCHANGED dbTx
          /\ last' = Trace({"updateTransaction"}, "error")
  /\ UNCHANGED <<authVars, dbCats, categories, confirmModal, connectionError, loadingData, seedJob, otherJob, addJob, ids, fnVars>>

\* IncomeList's status button (the list shows the incomes) and handleToggleStatus
ToggleStatus(t, ok) ==
  /\ CanClick
  /\ t \in despesas
  /\ t.type = "income"
  /\ IF ok
     THEN /\ dbTx' = UpdateTransaction(dbTx, Toggled(t), authSession)
          /\ despesas' = { IF x.id = t.id THEN Toggled(t) ELSE x : x \in despesas }
          /\ last' = Trace({"updateTransaction"}, "success")
     ELSE /\ UNCHANGED <<dbTx, despesas>>
          /\ last' = Trace({"updateTransaction"}, "error")
  /\ UNCHANGED <<authVars, dbCats, categories, confirmModal, connectionError, loadingData, seedJob, otherJob, addJob, ids, fnVars>>

\* AccountsPayable: the rows that can be selected or paid singly
PayableIds == { t.id : t \in { x \in despesas : x.type = "expense" /\ x.status = "pending" } }

\* AccountsPayable.confirmPayment and handleMarkAsPaid
MarkAsPaid(idSet, paymentDate, ok) ==
  /\ CanClick
  /\ idSet # {}
  /\ idSet \subseteq PayableIds
  /\ IF ok
     THEN /\ dbTx' = MarkAsPaidRows(dbTx, idSet, paymentDate, authSession)
          /\ despesas' = { IF x.id \in idSet
                           THEN [x EXCEPT !.status = "paid", !.paymentDate = paymentDate]
                           ELSE x : x \in despesas }
          /\ last' = Trace({"markAsPaid"}, "success")
     ELSE /\ UNCHANGED <<dbTx, despesas>>
          /\ last' = Trace({"markAsPaid"}, "error")
  /\ UNCHANGED <<authVars, dbCats, categories, confirmModal, connectionError, loadingData, seedJob, otherJob, addJob, ids, fnVars>>

\* handleDeleteDespesa: opens the confirmation
RequestDeleteDespesa(id) ==
  /\ CanClick
  /\ id \in { t.id : t \in despesas }
  /\ confirmModal' = [isOpen |-> TRUE, action |-> "deleteTransaction", id |-> id]
  /\ last' = Trace({}, "none")
  /\ UNCHANGED <<authVars, dbCats, dbTx, categories, despesas, connectionError, loadingData, seedJob, otherJob, addJob, ids, fnVars>>

\* the guard of requestDeleteCategory: despesas.some(t => t.category === name)
MutInUseExpensesOnly(name) == \E t \in despesas : t.category = name /\ t.type = "expense"

IsCategoryInUse(name) == \E t \in despesas : t.category = name

\* requestDeleteCategory: refuses, or opens the confirmation
RequestDeleteCategory(id) ==
  /\ CanClick
  /\ \E c \in categories :
       /\ c.id = id
       /\ IF IsCategoryInUse(c.name)
          THEN /\ confirmModal' = confirmModal
               /\ last' = Trace({}, "integrity")
          ELSE /\ confirmModal' = [isOpen |-> TRUE, action |-> "deleteCategory", id |-> id]
               /\ last' = Trace({}, "none")
  /\ UNCHANGED <<authVars, dbCats, dbTx, categories, despesas, connectionError, loadingData, seedJob, otherJob, addJob, ids, fnVars>>

\* the onConfirm closures of handleDeleteDespesa and requestDeleteCategory
ConfirmYes(ok) ==
  /\ user # NullObj
  /\ confirmModal.isOpen
  /\ IF confirmModal.action = "deleteTransaction"
     THEN /\ IF ok
             THEN /\ dbTx' = DeleteById(dbTx, confirmModal.id, authSession)
                  /\ despesas' = { t \in despesas : t.id # confirmModal.id }
                  /\ last' = Trace({"deleteTransaction"}, "success")
             ELSE /\ UNCHANGED <<dbTx, despesas>>
                  /\ last' = Trace({"deleteTransaction"}, "error")
          /\ UNCHANGED <<dbCats, categories>>
     ELSE /\ IF ok
             THEN /\ dbCats' = DeleteById(dbCats, confirmModal.id, authSession)
                  /\ categories' = { c \in categories : c.id # confirmModal.id }
                  /\ last' = Trace({"deleteCategory"}, "success")
             ELSE /\ UNCHANGED <<dbCats, categories>>
                  /\ last' = Trace({"deleteCategory"}, "error")
          /\ UNCHANGED <<dbTx, despesas>>
  /\ confirmModal' = [confirmModal EXCEPT !.isOpen = FALSE]
  /\ UNCHANGED <<authVars, connectionError, loadingData, seedJob, otherJob, addJob, ids, fnVars>>

\* closeConfirmModal
CancelConfirm ==
  /\ user # NullObj
  /\ confirmModal.isOpen
  /\ confirmModal' = [confirmModal EXCEPT !.isOpen = FALSE]
  /\ last' = Trace({}, "none")
  /\ UNCHANGED <<authVars, dbCats, dbTx, categories, despesas, connectionError, loadingData, seedJob, otherJob, addJob, ids, fnVars>>


\* ------------------------------------------------- the financial analysis (AIInsight)
\* `arg` is the list the awaited call of analyzeFinances was given
NoInsight == [analysis |-> NullObj, loading |-> FALSE, error |-> FALSE, arg |-> {}]

\* what the request of analyzeFinances can come to: an analysis in JSON (two
\* different ones), an answer without text, a text that is not JSON, a rejection
GeminiAnswers == {"analysis1", "analysis2", "noText", "notJson", "rejected"}

Unavailable ==
  [summary |-> "Nao foi possivel gerar a analise no momento.", tips |-> "Tente novamente mais tarde."]

\* analyzeFinances: the value it resolves to, and whether it throws instead
AnalyzeFinances(list, answer) ==
  IF list = {} THEN [threw |-> FALSE, value |-> [summary |-> "Nao ha transacoes suficientes para analise.", tips |-> "Adicione receitas e despesas para receber dicas."]]
  ELSE IF answer \in {"analysis1", "analysis2"}
  THEN [threw |-> FALSE, value |-> [summary |-> answer, tips |-> answer]]
  ELSE [threw |-> FALSE, value |-> Unavailable]

\* AIInsight's button (disabled while loading or with no transaction): handleAnalyze
\* up to its await
Analyze ==
  /\ CanClick
  /\ ~insight.loading
  /\ despesas # {}
  /\ insight' = [insight EXCEPT !.loading = TRUE, !.error = FALSE, !.arg = despesas]
  /\ last' = Trace({"generateContent"}, "none")
  /\ UNCHANGED <<authVars, dataVars, ids, fnIn, built>>

\* handleAnalyze from the answer of analyzeFinances
AnalyzeSettles(answer) ==
  /\ insight.loading
  /\ LET result == AnalyzeFinances(insight.arg, answer)
     IN  insight' = IF result.threw
                    THEN [insight EXCEPT !.error = TRUE, !.loading = FALSE, !.arg = {}]
                    ELSE [insight EXCEPT !.analysis = result.value, !.loading = FALSE, !.arg = {}]
  /\ last' = Trace({}, "none")
  /\ UNCHANGED <<authVars, dataVars, ids, fnIn, built>>

\* ------------------------------------------------------------- categories
\* INITIAL_CATEGORIES, cut to one expense category and the category of kind both
INITIAL_CATEGORIES ==
  << [name |-> "Casa", type |-> "expense"], [name |-> "Outros", type |-> "both"] >>

\* String.prototype.toLowerCase on the names the model draws
ToLowerCase(name) ==
  CASE name = "Casa" -> "casa"
    [] name = "Outros" -> "outros"
    [] name = "Lazer" -> "lazer"
    [] OTHER -> name

\* names typed into CategoryManager's add and edit forms
NameInputs == {"casa", "Lazer"}

\* the budget inputs' text, and parseFloat of it (NaN compares false with <= 0)
BudgetTexts == {"", "0", "-3", "5"}
ParseFloat(text) == CASE text = "5" -> 5 [] text = "-3" -> 0 - 3 [] OTHER -> 0
BudgetRejected(text) == text = "" \/ (text # "" /\ ParseFloat(text) <= 0)

\* handleAddCategory's guard: categories.some(c => lower(c.name) === lower(name))
\* the name check of handleAddCategory comparing the names as typed
MutNameTakenExact(name) == \E c \in categories : c.name = name

NameTaken(name) == \E c \in categories : ToLowerCase(c.name) = ToLowerCase(name)

\* CategoryManager.handleAdd and handleAddCategory
AddCategory(name, type, budgetText, ok) ==
  /\ CanClick
  /\ ids.adds < MaxCatAdds
  /\ IF BudgetRejected(budgetText)
     THEN /\ last' = Trace({}, "none")
          /\ UNCHANGED <<dbCats, categories, ids>>
     ELSE IF NameTaken(name)
     THEN /\ last' = Trace({}, "duplicate")
          /\ UNCHANGED <<dbCats, categories, ids>>
     ELSE LET newCat == [ id |-> ids.cat + 1, name |-> name, type |-> type,
                          budget |-> ParseFloat(budgetText) ]
              stored == ok /\ CanAccessContext(authSession, user.dataContextId)
          IN  /\ ids' = [ids EXCEPT !.cat = @ + 1, !.adds = @ + 1]
              /\ IF stored
                 THEN /\ dbCats' = dbCats \cup { CatRow(newCat, user.dataContextId) }
                      /\ categories' = categories \cup
                                         { CategoryOfRow(CatRow(newCat, user.dataContextId)) }
                      /\ last' = Trace({"addCategory"}, "success")
                 ELSE /\ UNCHANGED <<dbCats, categories>>
                      /\ last' = Trace({"addCategory"}, "error")
  /\ UNCHANGED <<authVars, dbTx, despesas, confirmModal, connectionError, loadingData, seedJob, otherJob, addJob, fnVars>>

\* CategoryManager.saveEdit and handleEditCategory
EditCategory(id, name, type, budgetText, ok) ==
  /\ CanClick
  /\ ids.edits < MaxCatEdits
  /\ id \in { c.id : c \in categories }
  /\ IF BudgetRejected(budgetText)
     THEN /\ last' = Trace({}, "none")
          /\ UNCHANGED <<dbCats, categories>>
     ELSE LET updated == [ id |-> id, name |-> name, type |-> type,
                           budget |-> ParseFloat(budgetText) ]
          IN  IF ok
              THEN /\ dbCats' = UpdateCategory(dbCats, updated, authSession)
                   /\ categories' = { IF c.id = id THEN updated ELSE c : c \in categories }
                   /\ last' = Trace({"updateCategory"}, "success")
              ELSE /\ UNCHANGED <<dbCats, categories>>
                   /\ last' = Trace({"updateCategory"}, "error")
  /\ ids' = IF ~BudgetRejected(budgetText) /\ ok
            THEN [ids EXCEPT !.edits = @ + 1] ELSE ids
  /\ UNCHANGED <<authVars, dbTx, despesas, confirmModal, connectionError, loadingData, seedJob, otherJob, addJob, fnVars>>

\* the rows dataService.seedCategories inserts; the database draws their ids
SeedRows(dataContextId, firstId) ==
  { [ id |-> firstId + k, name |-> INITIAL_CATEGORIES[k].name,
      type |-> INITIAL_CATEGORIES[k].type, budget |-> 0,
      data_context_id |-> dataContextId ] : k \in DOMAIN INITIAL_CATEGORIES }

\* A page load: AuthenticatedApp mounts with empty sets and runs loadData
\* (both fetches, the seed when no category came back, then the two sets).
\* the test of loadData before seeding: cats.length === 0
MutNeedsSeedAlways(cats) == TRUE

NeedsSeed(cats) == cats = {}

\* loadData from the answer of the two fetches: it fails, or assigns the two
\* sets, or, the context having no category, sends seedCategories and awaits it
LoadData(cap, okFetch) ==
  /\ user # NullObj
  /\ loadingData
  /\ seedJob = NullObj
  /\ addJob = NullObj
  /\ confirmModal' = ClosedModal
  /\ LET dataContextId == user.dataContextId
         cats == FetchCategories(dataContextId, authSession)
         trans == FetchTransactions(dataContextId, authSession)
     IN  IF ~okFetch
         THEN /\ connectionError' = TRUE /\ loadingData' = FALSE
              /\ last' = Trace({"fetchCategories", "fetchTransactions"}, "error")
              /\ UNCHANGED <<categories, despesas, seedJob>>
         ELSE IF ~NeedsSeed(cats)
         THEN /\ categories' = cats /\ despesas' = trans
              /\ connectionError' = FALSE /\ loadingData' = FALSE
              /\ last' = Trace({"fetchCategories", "fetchTransactions"}, "none")
              /\ UNCHANGED seedJob
         ELSE /\ ids.seeds < cap
              /\ seedJob' = [dataContextId |-> dataContextId, cats |-> cats, trans |-> trans]
              /\ last' = Trace({"fetchCategories", "fetchTransactions"}, "none")
              /\ UNCHANGED <<categories, despesas, connectionError, loadingData>>
  /\ UNCHANGED <<authVars, dbCats, dbTx, otherJob, addJob, ids, fnVars>>

\* loadData from the answer of seedCategories
LoadDataSeeded(okSeed) ==
  /\ user # NullObj
  /\ loadingData
  /\ seedJob # NullObj
  /\ LET dataContextId == seedJob.dataContextId
         seeded == SeedRows(dataContextId, ids.cat)
     IN  IF okSeed /\ CanAccessContext(authSession, dataContextId)
         THEN /\ dbCats' = dbCats \cup seeded
              /\ ids' = [ids EXCEPT !.seeds = @ + 1, !.cat = @ + Len(INITIAL_CATEGORIES)]
              /\ categories' = { CategoryOfRow(r) : r \in seeded }
              /\ despesas' = seedJob.trans
              /\ connectionError' = FALSE
              /\ last' = Trace({"seedCategories"}, "success")
         ELSE /\ connectionError' = TRUE
              /\ last' = Trace({"seedCategories"}, "error")
              /\ UNCHANGED <<dbCats, ids, categories, despesas>>
  /\ loadingData' = FALSE
  /\ seedJob' = NullObj
  /\ UNCHANGED <<authVars, dbTx, confirmModal, otherJob, addJob, fnVars>>

\* loadData of another session on the same data context (the account opened in
\* a second browser): its fetch finds no category and it sends seedCategories
OtherSessionLoads(cap) ==
  /\ user # NullObj
  /\ otherJob = NullObj
  /\ ids.seeds < cap
  /\ NeedsSeed(FetchCategories(user.dataContextId, authSession))
  /\ otherJob' = [dataContextId |-> user.dataContextId, uid |-> authSession]
  /\ last' = Trace({}, "none")
  /\ UNCHANGED <<authVars, dbCats, dbTx, categories, despesas, confirmModal, connectionError,
                 loadingData, seedJob, addJob, ids, fnVars>>

\* seedCategories of the other session is answered
OtherSessionSeeded(okSeed) ==
  /\ otherJob # NullObj
  /\ IF okSeed /\ CanAccessContext(otherJob.uid, otherJob.dataContextId)
     THEN /\ dbCats' = dbCats \cup SeedRows(otherJob.dataContextId, ids.cat)
          /\ ids' = [ids EXCEPT !.seeds = @ + 1, !.cat = @ + Len(INITIAL_CATEGORIES)]
     ELSE UNCHANGED <<dbCats, ids>>
  /\ otherJob' = NullObj
  /\ last' = Trace({}, "none")
  /\ UNCHANGED <<authVars, dbTx, categories, despesas, confirmModal, connectionError,
                 loadingData, seedJob, addJob, fnVars>>

\* Another session of the same data context saves a transaction under one of the
\* context's stored categories.
OtherSessionAdds(cap, category) ==
  /\ user # NullObj
  /\ ids.tx < cap
  /\ \E c \in dbCats : c.data_context_id = user.dataContextId /\ c.name = category
  /\ dbTx' = dbTx \cup
       { TxRow(WithId(Single(90, "expense", category, "pending", DueToday, Undef, ""),
                      ids.tx + 1), user.dataContextId) }
  /\ ids' = [ids EXCEPT !.tx = @ + 1]
  /\ last' = Trace({}, "none")
  /\ UNCHANGED <<authVars, dbCats, categories, despesas, confirmModal, connectionError,
                 loadingData, seedJob, otherJob, addJob, fnVars>>


\* ------------------------------------------------------------ authService and App
\* The people who can sign up: the id Supabase Auth gives each of them.
AuthIds == {"A", "B"}
NameOf(id) == IF id = "A" THEN "Ana" ELSE "Bruno"
EmailOf(id) == IF id = "A" THEN "ana@x" ELSE "bruno@x"

\* uuidv4() of addMember: the k-th call returns the k-th of these
MemberUuids == <<"m1", "m2", "m3", "m4">>

\* app_users policies: a row is visible to, and insertable by, the authenticated
\* id that is the row's id or the row's parent_id
\* app_users without its policies: any signed-in user passes
MutCanSeeUserNoPolicy(uid, r) == uid # Null

CanSeeUser(uid, r) == uid # Null /\ (uid = r.id \/ uid = r.parent_id)
SelectById(id, uid) == { r \in dbUsers : r.id = id /\ CanSeeUser(uid, r) }
SelectMembers(parentId, uid) == { r \in dbUsers : r.parent_id = parentId /\ CanSeeUser(uid, r) }

\* "members || []": a members query that fails leaves data null
MembersOrEmpty(parentId, uid, okMembers) ==
  IF okMembers THEN SelectMembers(parentId, uid) ELSE {}

\* addMember's payload.data_context_id
MutMemberContextParentId(adminUser, newMemberId, shareData) ==
  IF shareData THEN adminUser.dataContextId ELSE adminUser.id
MutMemberContextSecondUuid(adminUser, newMemberId, shareData) ==
  IF shareData THEN adminUser.dataContextId ELSE "uuid-2"
MemberContext(adminUser, newMemberId, shareData) ==
  IF shareData THEN adminUser.dataContextId ELSE newMemberId

\* deferred: the identities whose registration answered "confirm your email" and
\* that have not logged in since
NoGhost == [entered |-> "none", held |-> NullObj, trip |-> "none", deferred |-> {}]
Entered(how) ==
  [entered |-> how, held |-> NullObj, trip |-> "none", deferred |-> ghost.deferred]

\* AuthenticatedApp is keyed by user.id: it mounts with empty sets, loading.
\* The actions that change or reload the account wait for an add in flight
\* (addJob = NullObj): a remount while inserts are pending is left out.
\* a switch that keeps the mounted AuthenticatedApp (no key on it) and its data
MutMountedKeepsData ==
  /\ confirmModal' = ClosedModal
  /\ connectionError' = FALSE /\ loadingData' = TRUE /\ addJob' = NullObj
  /\ seedJob' = NullObj /\ UNCHANGED <<categories, despesas, otherJob>>

Mounted ==
  /\ categories' = {} /\ despesas' = {} /\ confirmModal' = ClosedModal
  /\ connectionError' = FALSE /\ loadingData' = TRUE /\ addJob' = NullObj
  /\ seedJob' = NullObj /\ UNCHANGED otherJob

\* newUserPayload of register and of login's recovery: the account row of an
\* authenticated identity, with a context of its own and no parent
MutNewUserPayloadNoContext(userId) ==
  AccountRow(userId, NameOf(userId), EmailOf(userId), Null, EmailOf(userId))
NewUserPayload(userId) ==
  AccountRow(userId, NameOf(userId), EmailOf(userId), Null, userId)

\* AuthScreen submits the registration form: authService.register, then handleLogin.
\* outcome: what signUp and the profile insert answer.
Register(id, outcome) ==
  /\ user = NullObj
  /\ last' = Trace({"signUp"}, IF outcome = "ok" THEN "none" ELSE "error")
  /\ UNCHANGED <<logoutJob, dbCats, dbTx, ids, fnVars>>
  /\ CASE outcome = "authError" ->
            UNCHANGED <<authVars, categories, despesas, confirmModal, connectionError,
                        loadingData, seedJob, otherJob, addJob>>
       [] outcome = "noSession" ->
            \* signUp answers a user without a session: the email is to be confirmed
            /\ id \notin { a.id : a \in authUsers }
            /\ authUsers' = authUsers \cup { [id |-> id, email |-> EmailOf(id),
                                             name |-> NameOf(id), confirmed |-> FALSE] }
            /\ ghost' = [ghost EXCEPT !.deferred = @ \cup {id}]
            /\ UNCHANGED <<authSession, dbUsers, cache, user, categories, despesas,
                           confirmModal, connectionError, loadingData, seedJob, otherJob, addJob>>
       [] outcome = "insertFails" ->
            \* the session exists, the insert fails and the row is not there when
            \* read back: signOut and throw
            /\ id \notin { a.id : a \in authUsers }
            /\ authUsers' = authUsers \cup { [id |-> id, email |-> EmailOf(id),
                                             name |-> NameOf(id), confirmed |-> TRUE] }
            /\ authSession' = Null
            /\ UNCHANGED <<dbUsers, cache, user, ghost, categories, despesas,
                           confirmModal, connectionError, loadingData, seedJob, otherJob, addJob>>
       [] outcome = "ok" ->
            /\ id \notin { a.id : a \in authUsers }
            /\ authUsers' = authUsers \cup { [id |-> id, email |-> EmailOf(id),
                                             name |-> NameOf(id), confirmed |-> TRUE] }
            /\ authSession' = id
            /\ LET profile == NewUserPayload(id)
               IN  /\ dbUsers' = dbUsers \cup { profile }
                   /\ cache' = UserOfRegister(profile)
                   /\ user' = UserOfRegister(profile)
            /\ ghost' = Entered("own")
            /\ Mounted

\* the person follows the confirmation link of the sign-up email
ConfirmEmail(id) ==
  /\ \E a \in authUsers : a.id = id /\ ~a.confirmed
  /\ authUsers' = { IF a.id = id THEN [a EXCEPT !.confirmed = TRUE] ELSE a : a \in authUsers }
  /\ last' = Trace({}, "none")
  /\ UNCHANGED <<authSession, dbUsers, cache, logoutJob, user, ghost, dataVars, ids, fnVars>>

\* await supabase.auth.signOut(): the client's session after the request; a
\* request that fails leaves the session
MutNoSignOut(session, okSignOut) == session
AfterSignOut(session, okSignOut) == IF okSignOut THEN Null ELSE session

\* signInWithPassword succeeds for a confirmed identity when the request does
Authenticates(id, okAuth) == okAuth /\ \E a \in authUsers : a.id = id /\ a.confirmed

\* the profile login reads: the row, or nothing when the query fails
ProfileRead(id, okProfile) == IF okProfile THEN SelectById(id, id) ELSE {}

\* the recovery insert of login stores a row only when no row has the id
RecoveryInserts(id, okInsert) == okInsert /\ ~\E r \in dbUsers : r.id = id

\* AuthScreen submits the login form: authService.login, then handleLogin
Login(id, okAuth, okProfile, okInsert, okMembers, okSignOut) ==
  /\ user = NullObj
  /\ UNCHANGED <<authUsers, logoutJob, dbCats, dbTx, ids, fnVars>>
  /\ IF ~Authenticates(id, okAuth)
     THEN /\ last' = Trace({"signIn"}, "error")
          /\ UNCHANGED <<authSession, dbUsers, cache, user, ghost, categories, despesas,
                         confirmModal, connectionError, loadingData, seedJob, otherJob, addJob>>
     ELSE LET found == ProfileRead(id, okProfile)
              created == NewUserPayload(id)
          IN  IF found = {} /\ ~RecoveryInserts(id, okInsert)
              THEN \* the recovery insert fails: signOut and throw
                   /\ authSession' = AfterSignOut(id, okSignOut)
                   /\ last' = Trace({"signIn", "insertProfile", "signOut"}, "error")
                   /\ UNCHANGED <<dbUsers, cache, user, ghost, categories, despesas,
                                  confirmModal, connectionError, loadingData, seedJob, otherJob, addJob>>
              ELSE LET profile == IF found = {} THEN created ELSE CHOOSE r \in found : TRUE
                       stored == dbUsers \cup { profile }
                       members == IF okMembers
                                  THEN { r \in stored : r.parent_id = profile.id }
                                  ELSE {}
                   IN  /\ authSession' = id
                       /\ dbUsers' = stored
                       /\ cache' = UserOfProfile(profile, members)
                       /\ user' = UserOfProfile(profile, members)
                       /\ ghost' = [Entered("own") EXCEPT !.deferred = @ \ {id}]
                       /\ last' = Trace(IF found = {} THEN {"signIn", "insertProfile"}
                                        ELSE {"signIn"}, "none")
                       /\ Mounted

\* MemberManager.handleAddMember: authService.addMember, then onUpdateUser
AddMember(shareData, okInsert, okMembers) ==
  /\ CanClick
  /\ addJob = NullObj
  /\ ids.members < MaxMembers
  /\ ids.members < Len(MemberUuids)
  /\ ids' = [ids EXCEPT !.members = @ + 1]
  /\ LET adminUser == user
         newMemberId == MemberUuids[ids.members + 1]
         payload == AccountRow(newMemberId, "Bia", "bia@x", adminUser.id,
                               MemberContext(adminUser, newMemberId, shareData))
     IN  IF okInsert /\ CanSeeUser(authSession, payload)
         THEN /\ dbUsers' = dbUsers \cup { payload }
              /\ LET members == IF okMembers
                                THEN { r \in dbUsers \cup { payload } :
                                         r.parent_id = adminUser.id /\ CanSeeUser(authSession, r) }
                                ELSE {}
                     updatedAdmin == [adminUser EXCEPT !.members = members]
                 IN  /\ cache' = updatedAdmin
                     /\ user' = updatedAdmin
              /\ last' = Trace({"insertMember"}, "success")
         ELSE /\ last' = Trace({"insertMember"}, "error")
              /\ UNCHANGED <<dbUsers, cache, user>>
  /\ ghost' = [ghost EXCEPT !.trip = "none", !.held = NullObj]
  /\ UNCHANGED <<authUsers, authSession, logoutJob, dataVars, fnVars>>

\* authService.switchUser: the target row, then its members, then the cache
SwitchUser(targetUserId, okProfile, okMembers) ==
  LET data == IF okProfile THEN SelectById(targetUserId, authSession) ELSE {}
  IN  IF data = {} THEN NullObj
      ELSE LET profile == CHOOSE r \in data : TRUE
           IN  UserOfProfile(profile, MembersOrEmpty(profile.id, authSession, okMembers))

\* MemberManager.handleSwitchToMember
SwitchToMember(memberId, okProfile, okMembers) ==
  /\ CanClick
  /\ addJob = NullObj
  /\ \E m \in user.members : m.id = memberId
  /\ LET newUser == SwitchUser(memberId, okProfile, okMembers)
     IN  IF newUser # NullObj
         THEN /\ cache' = newUser
              /\ user' = newUser
              /\ ghost' = [entered |-> "member", held |-> user, trip |-> "atMember",
                           deferred |-> ghost.deferred]
              /\ last' = Trace({"switchUser"}, "none")
              /\ Mounted
         ELSE /\ last' = Trace({"switchUser"}, "error")
              /\ ghost' = [ghost EXCEPT !.trip = "none", !.held = NullObj]
              /\ UNCHANGED <<cache, user, categories, despesas, confirmModal,
                             connectionError, loadingData, seedJob, otherJob, addJob>>
  /\ UNCHANGED <<authUsers, authSession, logoutJob, dbUsers, dbCats, dbTx, ids, fnVars>>

\* AuthenticatedApp.handleReturnToParent (the Header's return button)
ReturnToParent(okProfile, okMembers) ==
  /\ CanClick
  /\ addJob = NullObj
  /\ ~Absent(user.parentId)
  /\ LET parentUser == SwitchUser(user.parentId, okProfile, okMembers)
     IN  IF parentUser # NullObj
         THEN /\ cache' = parentUser
              /\ user' = parentUser
              /\ ghost' = [entered |-> "own", held |-> ghost.held,
                           trip |-> IF ghost.trip = "atMember" THEN "returned" ELSE "none",
                           deferred |-> ghost.deferred]
              /\ last' = Trace({"switchUser"}, "success")
              /\ Mounted
         ELSE /\ last' = Trace({"switchUser"}, "error")
              /\ ghost' = [ghost EXCEPT !.trip = "none", !.held = NullObj]
              /\ UNCHANGED <<cache, user, categories, despesas, confirmModal,
                             connectionError, loadingData, seedJob, otherJob, addJob>>
  /\ UNCHANGED <<authUsers, authSession, logoutJob, dbUsers, dbCats, dbTx, ids, fnVars>>

\* App.handleLogout: authService.logout() is called and not awaited, and
\* setUser(null) shows the AuthScreen at once
Logout ==
  /\ CanClick
  /\ addJob = NullObj
  /\ ~logoutJob
  /\ logoutJob' = TRUE
  /\ user' = NullObj
  \* the cached account stays until the request answers, and so does how it was entered
  /\ ghost' = [ghost EXCEPT !.trip = "none", !.held = NullObj]
  /\ categories' = {} /\ despesas' = {} /\ confirmModal' = ClosedModal
  /\ connectionError' = FALSE /\ loadingData' = FALSE
  /\ UNCHANGED <<seedJob, otherJob>>
  /\ last' = Trace({"signOut"}, "none")
  /\ UNCHANGED <<authUsers, authSession, cache, dbUsers, dbCats, dbTx, addJob, ids, fnVars>>

\* authService.logout() continues: the signOut request has answered, and the
\* cached account is removed whatever it answered
LogoutSettles(okSignOut) ==
  /\ logoutJob
  /\ logoutJob' = FALSE
  /\ authSession' = AfterSignOut(authSession, okSignOut)
  /\ cache' = NullObj
  /\ last' = Trace({}, "none")
  /\ UNCHANGED <<authUsers, dbUsers, user, ghost, dataVars, ids, fnVars>>

\* The page is opened again: App starts from authService.getCurrentUser(); a
\* logout() still waiting for its request is gone with the old page
Restart ==
  \* reloads while an insert is awaited are left out
  /\ addJob = NullObj
  /\ seedJob = NullObj
  /\ logoutJob' = FALSE
  /\ user' = cache
  /\ ghost' = IF cache = NullObj THEN Entered("none")
              ELSE [ghost EXCEPT !.trip = "none", !.held = NullObj]
  /\ categories' = {} /\ despesas' = {} /\ confirmModal' = ClosedModal
  /\ connectionError' = FALSE /\ loadingData' = (cache # NullObj)
  /\ UNCHANGED <<seedJob, otherJob>>
  /\ last' = Trace({}, "none")
  /\ UNCHANGED <<authUsers, authSession, dbUsers, cache, dbCats, dbTx, addJob, ids, fnVars>>

\* ------------------------------------------------- specification: the data of one session
\* The owner "A" is logged in and the first load has seeded the starter categories.
OwnerRow == AccountRow("A", "Ana", "ana@x", Null, "A")

OwnerLoaded ==
  /\ authUsers = { [id |-> "A", email |-> "ana@x", name |-> "Ana", confirmed |-> TRUE] }
  /\ authSession = "A"
  /\ dbUsers = { OwnerRow }
  /\ cache = UserOfProfile(OwnerRow, {})
  /\ logoutJob = FALSE
  /\ user = UserOfProfile(OwnerRow, {})
  /\ ghost = [NoGhost EXCEPT !.entered = "own"]
  /\ dbCats = SeedRows("A", 0)
  /\ categories = { CategoryOfRow(r) : r \in SeedRows("A", 0) }
  /\ dbTx = {}
  /\ despesas = {}
  /\ confirmModal = ClosedModal
  /\ connectionError = FALSE
  /\ loadingData = FALSE
  /\ seedJob = NullObj
  /\ otherJob = NullObj
  /\ addJob = NullObj
  /\ ids = [tx |-> 0, cat |-> Len(INITIAL_CATEGORIES), adds |-> 0, edits |-> 0, seeds |-> 0, members |-> 0]
  /\ last = Trace({}, "none")

InitData ==
  /\ OwnerLoaded
  /\ fnIn = NullObj
  /\ built = << >>
  /\ insight = NoInsight

CategoryNames == { c.name : c \in categories }
PaymentDates == {Today, Earlier}

NextData ==
  \/ \E type \in Types, status \in Statuses, paymentDate \in PaymentDates, n \in 1..MaxParcelas :
       \E c \in AvailableCategories(type) :
         AddDespesaSubmit(MaxTx, 90, type, c.name, status, paymentDate, n)
  \/ \E k \in 1..MaxParcelas, ok \in BOOLEAN : InsertResolves(k, ok)
  \/ AddDespesaSettles
  \/ \E t \in despesas, status \in Statuses, paymentDate \in PaymentDates, ok \in BOOLEAN :
       \E category \in { c.name : c \in AvailableCategories(t.type) } \cup { t.category } :
         UpdateDespesa(t, category, status, paymentDate, ok)
  \/ \E t \in despesas, ok \in BOOLEAN : ToggleStatus(t, ok)
  \/ \E idSet \in SUBSET PayableIds, paymentDate \in PaymentDates, ok \in BOOLEAN :
       MarkAsPaid(idSet, paymentDate, ok)
  \/ \E t \in despesas : RequestDeleteDespesa(t.id)
  \/ \E c \in categories : RequestDeleteCategory(c.id)
  \/ \E ok \in BOOLEAN : ConfirmYes(ok)
  \/ CancelConfirm
  \/ \E c \in dbCats : OtherSessionAdds(MaxTx, c.name)

SpecData == InitData /\ [][NextData]_vars


\* ------------------------------- specification: category deletion against transactions
NextDel ==
  \/ \E type \in Types, status \in Statuses, n \in 1..MaxParcelas :
       \E c \in AvailableCategories(type) :
         AddDespesaSubmit(MaxTxDel, 90, type, c.name, status, Today, n)
  \/ \E k \in 1..MaxParcelas, ok \in BOOLEAN : InsertResolves(k, ok)
  \/ AddDespesaSettles
  \/ \E t \in despesas, status \in Statuses, ok \in BOOLEAN :
       \E category \in { c.name : c \in AvailableCategories(t.type) } \cup { t.category } :
         UpdateDespesa(t, category, status, Today, ok)
  \/ \E t \in despesas, ok \in BOOLEAN : ToggleStatus(t, ok)
  \/ \E t \in despesas : RequestDeleteDespesa(t.id)
  \/ \E c \in categories : RequestDeleteCategory(c.id)
  \/ \E ok \in BOOLEAN : ConfirmYes(ok)
  \/ CancelConfirm
  \/ \E c \in dbCats : OtherSessionAdds(MaxTxDel, c.name)

SpecDel == InitData /\ [][NextDel]_vars

\* ------------------------------------------- specification: the categories of one context
CategoryTypes == {"income", "expense"}

NextCat ==
  \/ \E name \in NameInputs, type \in CategoryTypes, budgetText \in BudgetTexts, ok \in BOOLEAN :
       AddCategory(name, type, budgetText, ok)
  \/ \E c \in categories, type \in CategoryTypes, budgetText \in BudgetTexts, ok \in BOOLEAN :
       \E name \in NameInputs \cup { c.name } :
         EditCategory(c.id, name, type, budgetText, ok)
  \/ \E c \in categories : RequestDeleteCategory(c.id)
  \/ \E ok \in BOOLEAN : ConfirmYes(ok)
  \/ CancelConfirm
  \/ Restart
  \/ \E okFetch \in BOOLEAN : LoadData(MaxReseeds, okFetch)
  \/ \E okSeed \in BOOLEAN : LoadDataSeeded(okSeed)
  \/ \E c \in AvailableCategories("expense") :
       AddDespesaSubmit(MaxTxCat, 90, "expense", c.name, "pending", Today, 1)
  \/ \E ok \in BOOLEAN : InsertResolves(1, ok)
  \/ AddDespesaSettles

SpecCat == InitData /\ [][NextCat]_vars

\* ------------------------- specification: every handler that writes to the storage
NextStore ==
  \/ \E type \in Types, status \in Statuses :
       \E c \in AvailableCategories(type) :
         AddDespesaSubmit(MaxTxStore, 90, type, c.name, status, Today, 1)
  \/ \E ok \in BOOLEAN : InsertResolves(1, ok)
  \/ AddDespesaSettles
  \/ \E t \in despesas, status \in Statuses, ok \in BOOLEAN :
       UpdateDespesa(t, t.category, status, Today, ok)
  \/ \E t \in despesas, ok \in BOOLEAN : ToggleStatus(t, ok)
  \/ \E idSet \in SUBSET PayableIds, ok \in BOOLEAN : MarkAsPaid(idSet, Today, ok)
  \/ \E t \in despesas : RequestDeleteDespesa(t.id)
  \/ \E c \in categories : RequestDeleteCategory(c.id)
  \/ \E ok \in BOOLEAN : ConfirmYes(ok)
  \/ CancelConfirm
  \/ \E name \in NameInputs, budgetText \in BudgetTexts, ok \in BOOLEAN :
       AddCategory(name, "expense", budgetText, ok)
  \/ \E c \in categories, budgetText \in BudgetTexts, ok \in BOOLEAN :
       EditCategory(c.id, c.name, c.type, budgetText, ok)

SpecStore == InitData /\ [][NextStore]_vars

\* ------------------- specification: the starter categories, two sessions on one context
NextSeed ==
  \/ \E c \in categories : RequestDeleteCategory(c.id)
  \/ \E ok \in BOOLEAN : ConfirmYes(ok)
  \/ CancelConfirm
  \/ Restart
  \/ \E okFetch \in BOOLEAN : LoadData(MaxSeeds, okFetch)
  \/ \E okSeed \in BOOLEAN : LoadDataSeeded(okSeed)
  \/ OtherSessionLoads(MaxSeeds)
  \/ \E okSeed \in BOOLEAN : OtherSessionSeeded(okSeed)

SpecSeed == InitData /\ [][NextSeed]_vars

\* -------------------------------------- specification: the dashboard summary alone
\* the loop of dashboardData over the filtered list, from position i on
RECURSIVE MutSumLoopAnyStatus(_, _, _)
MutSumLoopAnyStatus(filtered, i, acc) ==
  IF i > Len(filtered) THEN acc
  ELSE LET t == filtered[i]
       IN  MutSumLoopAnyStatus(filtered, i + 1,
             IF t.type = "income"
             THEN [acc EXCEPT !.income = @ + t.amount]
             ELSE IF t.type = "expense"
             THEN IF t.status = "paid"
                  THEN [acc EXCEPT !.expense = @ + t.amount]
                  ELSE [acc EXCEPT !.pending = @ + t.amount]
             ELSE acc)

RECURSIVE SumLoop(_, _, _)
SumLoop(filtered, i, acc) ==
  IF i > Len(filtered) THEN acc
  ELSE LET t == filtered[i]
       IN  SumLoop(filtered, i + 1,
             IF t.type = "income" /\ t.status = "paid"
             THEN [acc EXCEPT !.income = @ + t.amount]
             ELSE IF t.type = "expense"
             THEN IF t.status = "paid"
                  THEN [acc EXCEPT !.expense = @ + t.amount]
                  ELSE [acc EXCEPT !.pending = @ + t.amount]
             ELSE acc)

\* the test of despesas.filter in dashboardData; filterMonth is a getMonth() index
InFilter(t, filterMonth, filterYear) == (t.date[2] - 1) = filterMonth /\ t.date[1] = filterYear

\* dashboardData; savingsRate is the fraction ((income - expense) / income) * 100
DashboardData(list, filterMonth, filterYear) ==
  LET InMonth(t) == InFilter(t, filterMonth, filterYear)
      filtered == SelectSeq(list, InMonth)
      sums == SumLoop(filtered, 1, [income |-> 0, expense |-> 0, pending |-> 0])
  IN  [ income  |-> sums.income,
        expense |-> sums.expense,
        total   |-> sums.income - sums.expense,
        pending |-> sums.pending,
        savingsRate |-> IF sums.income > 0
                        THEN [num |-> (sums.income - sums.expense) * 100, den |-> sums.income]
                        ELSE [num |-> 0, den |-> 1],
        filteredTransactions |-> filtered ]

DashAmounts == {10, 25}
DashDates == { <<2024, 1, 31>>, <<2024, 2, 1>>, <<2023, 1, 31>> }
DashRows == [ amount : DashAmounts, type : Types, status : Statuses, date : DashDates ]
\* the lists of at most maxLen transactions, and the arguments made of them
DashLists(maxLen) == UNION { [1..n -> DashRows] : n \in 0..maxLen }
DashInputs(maxLen) == [ despesas : DashLists(maxLen), filterMonth : {0, 1}, filterYear : {2024} ]

InitDash ==
  /\ OwnerLoaded
  /\ fnIn \in DashInputs(MaxDash)
  /\ built = NullObj
  /\ insight = NoInsight

\* the memo of dashboardData is computed
DashBuild ==
  /\ built = NullObj
  /\ built' = DashboardData(fnIn.despesas, fnIn.filterMonth, fnIn.filterYear)
  /\ UNCHANGED <<authVars, dataVars, ids, last, fnIn, insight>>

NextDash == DashBuild

SpecDash == InitDash /\ [][NextDash]_vars

\* ---------------------------------- specification: the category budget report alone
\* .reduce((sum, e) => sum + e.amount, 0) over a list, from position i on
RECURSIVE ReduceAmount(_, _, _)
ReduceAmount(list, i, sum) ==
  IF i > Len(list) THEN sum ELSE ReduceAmount(list, i + 1, sum + list[i].amount)

\* `percentage` of BalanceByCategory with a budget of zero counted as unused
MutPercentageZeroBudget(budget, spent) ==
  IF budget > 0 THEN [num |-> spent * 100, den |-> budget] ELSE [num |-> 0, den |-> 1]

\* `percentage` of BalanceByCategory, the fraction (spent / budget) * 100
Percentage(budget, spent) ==
  IF budget > 0 THEN [num |-> spent * 100, den |-> budget]
  ELSE IF spent > 0 THEN [num |-> 100, den |-> 1] ELSE [num |-> 0, den |-> 1]

\* one row of `report`
ReportRow(cat, expenses) ==
  LET budget == cat.budget
      OfCategory(e) == e.category = cat.name /\ e.type = "expense"
      spent == ReduceAmount(SelectSeq(expenses, OfCategory), 1, 0)
  IN  [ id |-> cat.id, name |-> cat.name, budget |-> budget, spent |-> spent,
        balance |-> budget - spent, percentage |-> Percentage(budget, spent) ]

\* the comparator (a, b) => b.percentage - a.percentage is positive: b goes first
ComesAfter(a, b) == b.percentage.num * a.percentage.den > a.percentage.num * b.percentage.den

\* Array.prototype.sort with that comparator: a stable sort, here by insertion
RECURSIVE InsertRow(_, _)
InsertRow(sorted, row) ==
  IF sorted = << >> THEN << row >>
  ELSE LET final == sorted[Len(sorted)]
       IN  IF ComesAfter(final, row)
           THEN Append(InsertRow(SubSeq(sorted, 1, Len(sorted) - 1), row), final)
           ELSE Append(sorted, row)

RECURSIVE SortRows(_, _, _)
SortRows(report, i, sorted) ==
  IF i > Len(report) THEN sorted ELSE SortRows(report, i + 1, InsertRow(sorted, report[i]))

\* `data` of BalanceByCategory
BalanceData(cats, expenses) ==
  LET Relevant(c) == c.type = "expense" \/ c.type = "both"
      relevantCategories == SelectSeq(cats, Relevant)
      report == [ i \in DOMAIN relevantCategories |-> ReportRow(relevantCategories[i], expenses) ]
  IN  SortRows(report, 1, << >>)

ReportCatRows == [ name : {"Casa", "Lazer"}, type : {"income", "expense", "both"}, budget : {0, 50} ]
ReportTxRows == [ category : {"Casa", "Lazer"}, type : Types, amount : {25} ]
\* the categories carry their position as id
Numbered(list) ==
  [ i \in DOMAIN list |->
      [ id |-> i, name |-> list[i].name, type |-> list[i].type, budget |-> list[i].budget ] ]
ReportInputs(maxCats, maxTx) ==
  { [ categories |-> Numbered(cl), expenses |-> el ] :
      cl \in UNION { [1..n -> ReportCatRows] : n \in 0..maxCats },
      el \in UNION { [1..n -> ReportTxRows] : n \in 0..maxTx } }

InitReport ==
  /\ OwnerLoaded
  /\ fnIn \in ReportInputs(MaxRepCats, MaxRepTx)
  /\ built = NullObj
  /\ insight = NoInsight

\* the memo `data` of BalanceByCategory is computed
ReportBuild ==
  /\ built = NullObj
  /\ built' = [ data |-> BalanceData(fnIn.categories, fnIn.expenses) ]
  /\ UNCHANGED <<authVars, dataVars, ids, last, fnIn, insight>>

NextReport == ReportBuild

SpecReport == InitReport /\ [][NextReport]_vars

\* ----------------------------- specification: the financial analysis beside the list
NextInsight ==
  \/ \E type \in Types, status \in Statuses :
       \E c \in AvailableCategories(type) :
         AddDespesaSubmit(MaxTxInsight, 90, type, c.name, status, Today, 1)
  \/ \E ok \in BOOLEAN : InsertResolves(1, ok)
  \/ AddDespesaSettles
  \/ \E t \in despesas, ok \in BOOLEAN : ToggleStatus(t, ok)
  \/ Analyze
  \/ \E answer \in GeminiAnswers : AnalyzeSettles(answer)

SpecInsight == InitData /\ [][NextInsight]_vars

\* ------------------------- specification: paying bills, with the session's beginning and end
NextPay ==
  \/ \E n \in 1..MaxParcelas :
       \E c \in AvailableCategories("expense") :
         AddDespesaSubmit(MaxTxPay, 90, "expense", c.name, "pending", Today, n)
  \/ \E k \in 1..MaxParcelas, ok \in BOOLEAN : InsertResolves(k, ok)
  \/ AddDespesaSettles
  \/ \E idSet \in SUBSET PayableIds, paymentDate \in PaymentDates, ok \in BOOLEAN :
       MarkAsPaid(idSet, paymentDate, ok)
  \/ Logout
  \/ \E okSignOut \in BOOLEAN : LogoutSettles(okSignOut)
  \/ Restart
  \/ \E okFetch \in BOOLEAN : LoadData(MaxReseeds, okFetch)

SpecPay == InitData /\ [][NextPay]_vars

\* ------------------------------------ specification: the yearly expense chart alone
\* The local calendar date of new Date("YYYY-MM-DD"): the string is read as
\* midnight UTC, and getFullYear() / getMonth() answer in the host's time zone,
\* given here as its offset from UTC in hours.
LocalDateOf(date, tzOffset) ==
  IF tzOffset >= 0 THEN date
  ELSE IF date[3] > 1 THEN <<date[1], date[2], date[3] - 1>>
  ELSE IF date[2] > 1 THEN <<date[1], date[2] - 1, DaysInMonth(date[1], date[2] - 1)>>
  ELSE <<date[1] - 1, 12, 31>>

\* the forEach of EvolutionChart over the list, from position i on
RECURSIVE MonthlyTotals(_, _, _, _, _)
MonthlyTotals(list, year, tzOffset, i, totals) ==
  IF i > Len(list) THEN totals
  ELSE LET t == list[i]
           date == LocalDateOf(t.date, tzOffset)
       IN  MonthlyTotals(list, year, tzOffset, i + 1,
             IF t.type = "expense" /\ date[1] = year
             THEN [totals EXCEPT ![date[2]] = @ + t.amount]
             ELSE totals)

\* `data` of EvolutionChart: the totals of the twelve months
EvolutionData(list, year, tzOffset) ==
  MonthlyTotals(list, year, tzOffset, 1, [m \in 1..12 |-> 0])

ChartDates == { <<2024, 1, 31>>, <<2024, 2, 1>>, <<2024, 1, 1>>, <<2023, 12, 31>> }
ChartRows == [ amount : DashAmounts, type : Types, status : Statuses, date : ChartDates ]
TzOffsets == {0 - 3, 0, 9}
ChartInputs(maxLen) ==
  [ despesas : UNION { [1..n -> ChartRows] : n \in 0..maxLen },
    filterYear : {2024}, tzOffset : TzOffsets ]

InitChart ==
  /\ OwnerLoaded
  /\ fnIn \in ChartInputs(MaxChart)
  /\ built = NullObj
  /\ insight = NoInsight

\* the memo `data` of EvolutionChart is computed
ChartBuild ==
  /\ built = NullObj
  /\ built' = [ data |-> EvolutionData(fnIn.despesas, fnIn.filterYear, fnIn.tzOffset) ]
  /\ UNCHANGED <<authVars, dataVars, ids, last, fnIn, insight>>

NextChart == ChartBuild

SpecChart == InitChart /\ [][NextChart]_vars

\* ------------------ specification: the owner and its members, each changing its data
NextIso ==
  \/ \E shareData \in BOOLEAN : AddMember(shareData, TRUE, TRUE)
  \/ \E m \in (IF user = NullObj THEN {} ELSE user.members) : SwitchToMember(m.id, TRUE, TRUE)
  \/ ReturnToParent(TRUE, TRUE)
  \/ LoadData(MaxSeeds, TRUE)
  \/ LoadDataSeeded(TRUE)
  \/ \E c \in AvailableCategories("expense") :
       AddDespesaSubmit(MaxTxIso, 90, "expense", c.name, "pending", Today, 1)
  \/ InsertResolves(1, TRUE)
  \/ AddDespesaSettles
  \/ \E t \in despesas : UpdateDespesa(t, t.category, "pending", Today, TRUE)
  \/ \E idSet \in SUBSET PayableIds : MarkAsPaid(idSet, Today, TRUE)
  \/ \E t \in despesas : RequestDeleteDespesa(t.id)
  \/ \E c \in { x \in categories : x.name = "Lazer" } : RequestDeleteCategory(c.id)
  \/ ConfirmYes(TRUE)
  \/ AddCategory("Lazer", "expense", "5", TRUE)
  \/ \E c \in { x \in categories : x.name = "Lazer" } : EditCategory(c.id, c.name, "both", "5", TRUE)

SpecIso == InitData /\ [][NextIso]_vars

\* ------------------------------------- specification: the installment expander alone
Years == {2023, 2024}
DueDates ==
  { <<y, m, d>> : y \in Years, m \in 1..12, d \in 1..31 } \ 
  { <<y, m, d>> \in Years \X (1..12) \X (1..31) : d > DaysInMonth(y, m) }

FnInputs ==
  [ amount : Amounts, type : Types, category : {"Casa"}, status : Statuses,
    date : DueDates, paymentDate : {Undef, Earlier}, n : 1..MaxParcelasFn,
    observation : {Undef, "nota"} ]

InitFn ==
  /\ OwnerLoaded
  /\ fnIn \in FnInputs
  /\ built = << >>
  /\ insight = NoInsight

\* handleAddDespesa builds newTransactions from its arguments
FnBuild ==
  /\ built = << >>
  /\ built' = NewTransactions(fnIn.amount, fnIn.type, fnIn.category, fnIn.status,
                              fnIn.date, fnIn.paymentDate, fnIn.n, fnIn.observation)
  /\ UNCHANGED <<authVars, dataVars, ids, last, fnIn, insight>>

NextFn == FnBuild

SpecFn == InitFn /\ [][NextFn]_vars

\* ------------------------------------------- specification: accounts, members, contexts
InitAcct ==
  /\ authUsers = {}
  /\ authSession = Null
  /\ dbUsers = {}
  /\ cache = NullObj
  /\ logoutJob = FALSE
  /\ user = NullObj
  /\ ghost = NoGhost
  /\ dbCats = {}
  /\ dbTx = {}
  /\ categories = {}
  /\ despesas = {}
  /\ confirmModal = ClosedModal
  /\ connectionError = FALSE
  /\ loadingData = FALSE
  /\ seedJob = NullObj
  /\ otherJob = NullObj
  /\ addJob = NullObj
  /\ ids = [tx |-> 0, cat |-> 0, adds |-> 0, edits |-> 0, seeds |-> 0, members |-> 0]
  /\ last = Trace({}, "none")
  /\ fnIn = NullObj
  /\ built = << >>
  /\ insight = NoInsight

\* The answers the five requests of login can get.  A request that is not made
\* has no answer to vary: nothing follows a failed authentication, signOut is
\* sent only after a failed insert, and the members query only if no insert failed.
LoginAnswers ==
  { f \in [okAuth : BOOLEAN, okProfile : BOOLEAN, okInsert : BOOLEAN,
           okMembers : BOOLEAN, okSignOut : BOOLEAN] :
      /\ ~f.okAuth => (f.okProfile /\ f.okInsert /\ f.okMembers /\ f.okSignOut)
      /\ f.okInsert => f.okSignOut
      /\ ~f.okInsert => f.okMembers }

RegisterOutcomes == {"authError", "noSession", "insertFails", "ok"}

NextAcct ==
  \/ \E id \in AuthIds, outcome \in RegisterOutcomes : Register(id, outcome)
  \/ \E id \in AuthIds : ConfirmEmail(id)
  \/ \E id \in AuthIds, f \in LoginAnswers :
       Login(id, f.okAuth, f.okProfile, f.okInsert, f.okMembers, f.okSignOut)
  \/ \E shareData \in BOOLEAN, okInsert \in BOOLEAN, okMembers \in BOOLEAN :
       AddMember(shareData, okInsert, okMembers)
  \/ \E m \in (IF user = NullObj THEN {} ELSE user.members),
        okProfile \in BOOLEAN, okMembers \in BOOLEAN :
       SwitchToMember(m.id, okProfile, okMembers)
  \/ \E okProfile \in BOOLEAN, okMembers \in BOOLEAN : ReturnToParent(okProfile, okMembers)
  \/ Logout
  \/ \E okSignOut \in BOOLEAN : LogoutSettles(okSignOut)
  \/ Restart
  \/ \E okFetch \in BOOLEAN : LoadData(MaxSeeds, okFetch)
  \/ \E okSeed \in BOOLEAN : LoadDataSeeded(okSeed)

SpecAcct == InitAcct /\ [][NextAcct]_vars

\* --------------------------------- specification: one owner, its members and their data
NextShare ==
  \/ \E shareData \in BOOLEAN, okInsert \in BOOLEAN, okMembers \in BOOLEAN :
       AddMember(shareData, okInsert, okMembers)
  \/ \E m \in (IF user = NullObj THEN {} ELSE user.members),
        okProfile \in BOOLEAN, okMembers \in BOOLEAN :
       SwitchToMember(m.id, okProfile, okMembers)
  \/ \E okProfile \in BOOLEAN, okMembers \in BOOLEAN : ReturnToParent(okProfile, okMembers)
  \/ Restart
  \/ \E okFetch \in BOOLEAN : LoadData(MaxReseeds, okFetch)
  \/ \E okSeed \in BOOLEAN : LoadDataSeeded(okSeed)
  \/ \E c \in AvailableCategories("expense") :
       AddDespesaSubmit(MaxTxShare, 90, "expense", c.name, "pending", Today, 1)
  \/ \E ok \in BOOLEAN : InsertResolves(1, ok)
  \/ AddDespesaSettles

SpecShare == InitData /\ [][NextShare]_vars

\* -------------------------------------------------------------- properties
HasPaymentDate(t) == ~Absent(t.paymentDate)

\* C1: every transaction of the in-memory set that carries a payment date is a
\* paid expense.
C1_PaymentDateOnlyOnPaidExpense ==
  \A t \in despesas : HasPaymentDate(t) => (t.status = "paid" /\ t.type = "expense")

\* C2: no step deletes a category row while a stored transaction of the row's
\* data context has the row's name as its category.
C2_NoDeleteWhileReferenced ==
  [][ \A r \in dbCats :
        (r \notin dbCats') =>
          ~ \E t \in dbTx : t.data_context_id = r.data_context_id /\ t.category = r.name ]_vars

\* C3: requestDeleteCategory on a category whose name is the category of some
\* in-memory transaction sends no deleteCategory, opens no confirmation, leaves
\* the category set (in memory and stored) as it was and shows the integrity error.
C3_InUseDeletionRefused ==
  [][ \A c \in categories :
        ((\E t \in despesas : t.category = c.name) /\ RequestDeleteCategory(c.id)) =>
          /\ "deleteCategory" \notin last'.calls
          /\ last'.toast = "integrity"
          /\ ~confirmModal'.isOpen
          /\ confirmModal' = confirmModal
          /\ categories' = categories
          /\ dbCats' = dbCats ]_vars

\* C3's case: the integrity error is showing and an income and the category it
\* names are both still in memory
C3_Witness ==
  /\ last.toast = "integrity"
  /\ \E t \in despesas : t.type = "income" /\ t.category \in CategoryNames

\* C4: no two stored categories of one data context have names equal ignoring case.
C4_NamesUniqueIgnoringCase ==
  \A r1 \in dbCats, r2 \in dbCats :
    (r1.id # r2.id /\ r1.data_context_id = r2.data_context_id)
      => ToLowerCase(r1.name) # ToLowerCase(r2.name)


\* ---- accounts
StoredAccount(id) == CHOOSE r \in dbUsers : r.id = id

\* C5: an addMember that stores anything stores exactly one new account row; its
\* parent reference is the acting account's id; with shareData its
\* data_context_id is the acting account's, without shareData it differs from
\* the acting account's and from the data_context_id of every existing row.
C5_AddMemberRow ==
  [][ \A shareData \in BOOLEAN, okMembers \in BOOLEAN :
        (AddMember(shareData, TRUE, okMembers) /\ dbUsers' # dbUsers) =>
          /\ dbUsers \subseteq dbUsers'
          /\ Cardinality(dbUsers' \ dbUsers) = 1
          /\ \A r \in dbUsers' \ dbUsers :
               /\ r.parent_id = user.id
               /\ shareData => r.data_context_id = StoredAccount(user.id).data_context_id
               /\ ~shareData =>
                    /\ r.data_context_id # StoredAccount(user.id).data_context_id
                    /\ \A q \in dbUsers : r.data_context_id # q.data_context_id ]_vars

\* C5's case: addMember has just stored a member, and the owner "A" has both a
\* member that shares its context and a member with a context of its own
C5_Witness ==
  /\ last = Trace({"insertMember"}, "success")
  /\ \E r1 \in dbUsers, r2 \in dbUsers :
       /\ r1.parent_id = "A" /\ r1.data_context_id = "A"
       /\ r2.parent_id = "A" /\ r2.data_context_id = r2.id

\* C6: the data_context_id of every stored account row is the row's own id or
\* the id of another stored account row.
C6_ContextIsAnAccount ==
  \A r \in dbUsers :
    \/ r.data_context_id = r.id
    \/ \E q \in dbUsers : q.id # r.id /\ q.id = r.data_context_id

\* C6's case: a login has just created a missing account row, while a registered
\* owner has a member sharing its context and a member with its own context
C6_Witness ==
  /\ last = Trace({"signIn", "insertProfile"}, "none")
  /\ \E r1 \in dbUsers, r2 \in dbUsers :
       /\ r1.parent_id # Null /\ r1.data_context_id = r1.parent_id
       /\ r2.parent_id # Null /\ r2.data_context_id = r2.id

\* the fields C7 compares; a parent reference that is null or undefined is none
AccountFields(u) ==
  [ id |-> u.id, name |-> u.name, email |-> u.email,
    parent |-> IF Absent(u.parentId) THEN "none" ELSE u.parentId,
    dataContextId |-> u.dataContextId, members |-> u.members ]

\* C7: after switchUser(member.id) and then switchUser(member.parentId), nothing
\* in between, the active account has the id, name, email, parent reference,
\* data_context_id and members list the owner held before the first switch.
C7_RoundTripRestoresOwner ==
  ghost.trip = "returned" => AccountFields(user) = AccountFields(ghost.held)

\* C8: the active account has a parent reference exactly when the session is in
\* a member context entered by switchUser; a return to the parent happens only
\* from there, and a return that succeeds makes the account named by the parent
\* reference active, which has no parent reference.
C8_ParentRefIffMemberContext ==
  /\ [](user # NullObj => (~Absent(user.parentId) <=> ghost.entered = "member"))
  /\ [][ \A okProfile \in BOOLEAN, okMembers \in BOOLEAN :
           ReturnToParent(okProfile, okMembers) =>
             /\ ghost.entered = "member"
             /\ user' # user =>
                  /\ user'.id = user.parentId
                  /\ Absent(user'.parentId)
                  /\ ghost'.entered = "own" ]_vars

\* C8's case: the session is back on the owner after entering a member's context
C8_Witness ==
  /\ user # NullObj
  /\ ghost.trip = "returned"
  /\ Absent(user.parentId)
  /\ \E m \in user.members : m.parent_id = user.id

\* the active account is a member whose stored row shares its parent's context
IsSharedMember(u) ==
  /\ u # NullObj
  /\ ~Absent(u.parentId)
  /\ \E a \in dbUsers, b \in dbUsers :
       /\ b.id = u.id /\ a.id = b.parent_id
       /\ b.data_context_id = a.data_context_id

\* the account has no parent and the in-memory sets are those of a finished load
\* with no add in flight
IsLoadedOwner(u) ==
  /\ u # NullObj /\ Absent(u.parentId)
  /\ ~loadingData /\ ~connectionError /\ addJob = NullObj

\* C9: a load that completes while a member sharing its owner's context is active
\* gives exactly the categories and transactions a load under the owner gives;
\* a transaction the member adds is stored where a load under the owner finds
\* it, and is in the owner's set whenever the owner has loaded.
C9_SharedMemberSeesOwnerData ==
  /\ [][ (IsSharedMember(user) /\ loadingData /\ ~loadingData' /\ ~connectionError') =>
           LET owner == StoredAccount(user.parentId) IN
           /\ categories' = FetchCategories(owner.data_context_id, authSession)'
           /\ despesas' = FetchTransactions(owner.data_context_id, authSession)' ]_vars
  /\ [][ (IsSharedMember(user) /\ AddDespesaSettles) =>
           LET owner == StoredAccount(user.parentId) IN
           (despesas' \ despesas) \subseteq
              FetchTransactions(owner.data_context_id, authSession)' ]_vars
  /\ [](IsLoadedOwner(user) =>
          \A t \in FetchTransactions(StoredAccount(user.id).data_context_id, authSession) :
            t \in despesas)

\* C9's case: a member sharing its owner's context is active, its load has
\* completed, and the transaction it added is in memory
C9_Witness ==
  /\ IsSharedMember(user)
  /\ ~loadingData /\ ~connectionError
  /\ categories # {}
  /\ despesas # {}

\* C10: an expense with installment count N > 1 becomes exactly N records,
\* numbered 1..N in order, each with total N; every other submission becomes
\* exactly one record without an installment descriptor.
C10_RecordCountAndNumbering ==
  built # << >> =>
    IF fnIn.type = "expense" /\ fnIn.n > 1
    THEN /\ Len(built) = fnIn.n
         /\ \A k \in 1..Len(built) :
              built[k].installments = [current |-> k, total |-> fnIn.n]
    ELSE /\ Len(built) = 1
         /\ AbsentObj(built[1].installments)

\* C10's case: an expense expanded into more than two records
C10_Witness ==
  /\ built # << >>
  /\ fnIn.type = "expense" /\ fnIn.n > 2 /\ Len(built) > 2

\* the submission of SpecFn is an installment expansion that has been built
IsExpansion == built # << >> /\ fnIn.type = "expense" /\ fnIn.n > 1

\* C11: in an installment expansion the first record has the submitted status,
\* the submitted payment date if that status is paid and none otherwise, and the
\* submitted observation; every later record is pending with no payment date
\* and no observation.
C11_FirstRecordKeepsRestPending ==
  IsExpansion =>
    /\ built[1].status = fnIn.status
    /\ built[1].paymentDate = (IF fnIn.status = "paid" THEN fnIn.paymentDate ELSE Undef)
    /\ built[1].observation = fnIn.observation
    /\ \A k \in 2..Len(built) :
         /\ built[k].status = "pending"
         /\ Absent(built[k].paymentDate)
         /\ Absent(built[k].observation)

\* C11's case: a paid expense with a payment date and an observation, expanded
\* into three or more records
C11_Witness ==
  /\ IsExpansion
  /\ fnIn.status = "paid" /\ fnIn.paymentDate = Earlier /\ fnIn.observation = "nota"
  /\ Len(built) > 2
  /\ built[1].paymentDate = Earlier

\* months since year 0 of a due date
MonthNumber(date) == date[1] * 12 + (date[2] - 1)

DaysOfTargetMonth(date, i) ==
  LET t == MonthNumber(date) + i
  IN  DaysInMonth(t \div 12, (t % 12) + 1)

C13_LoginFailureWritesNothing ==
  [][ "signIn" \in last'.calls =>
      \A id \in AuthIds, f \in LoginAnswers :
        Login(id, f.okAuth, f.okProfile, f.okInsert, f.okMembers, f.okSignOut) =>
          /\ (Authenticates(id, f.okAuth) /\ ~f.okInsert /\ ~\E r \in dbUsers : r.id = id) =>
                /\ "signOut" \in last'.calls
                /\ f.okSignOut => authSession' = Null
                /\ cache' = cache
                /\ dbUsers' = dbUsers
                /\ user' = NullObj
                /\ last'.toast = "error"
          /\ ~Authenticates(id, f.okAuth) =>
                /\ "insertProfile" \notin last'.calls
                /\ dbUsers' = dbUsers
                /\ cache' = cache
                /\ authSession' = authSession
                /\ last'.toast = "error" ]_vars

\* C13's case: an identity with no account row has authenticated, the recovery
\* insert has failed, and it is signed out with nothing cached
C13_Witness ==
  /\ last = Trace({"signIn", "insertProfile", "signOut"}, "error")
  /\ authSession = Null
  /\ cache = NullObj
  /\ \E a \in authUsers : a.confirmed /\ ~\E r \in dbUsers : r.id = a.id

\* C14: a registration answered without a session stores no account row and
\* writes no cache; the next login of that identity that succeeds stores
\* exactly one new row, with the identity's id as id and as data_context_id
\* and with no parent reference.
C14_DeferredRowCreatedAtLogin ==
  [][ /\ "signUp" \in last'.calls =>
         \A id \in AuthIds :
           Register(id, "noSession") =>
             (dbUsers' = dbUsers /\ cache' = cache /\ user' = user)
      /\ ("signIn" \in last'.calls /\ user' # NullObj) =>
         \A id \in ghost.deferred, f \in LoginAnswers :
           Login(id, f.okAuth, f.okProfile, f.okInsert, f.okMembers, f.okSignOut) =>
             /\ dbUsers \subseteq dbUsers'
             /\ Cardinality(dbUsers' \ dbUsers) = 1
             /\ \A r \in dbUsers' \ dbUsers :
                  r.id = id /\ r.data_context_id = id /\ r.parent_id = Null
             /\ authSession' = id ]_vars

\* C14's case: the identity of a deferred registration has just logged in and
\* its row has been created by that login
C14_Witness ==
  /\ user # NullObj
  /\ last = Trace({"signIn", "insertProfile"}, "none")
  /\ ghost.deferred = {}
  /\ \E a \in authUsers : a.id = user.id
  /\ Cardinality(authUsers) = 1
  /\ dbUsers = { NewUserPayload(user.id) }

\* C15: a restart made after the user has logged out does not make an account
\* active: between the logout and the restart the cache was emptied.
C15_RestartAfterLogoutRestoresNobody ==
  [][ (user = NullObj /\ Restart) => user' = NullObj ]_vars

\* C16: when the storage call of update-transaction, toggle-status,
\* delete-transaction, mark-as-paid, add-category, edit-category or
\* delete-category fails, the in-memory transactions and categories are exactly
\* what they were before the call.
C16_FailedCallLeavesSets ==
  [][ LET Same == despesas' = despesas /\ categories' = categories
      IN  /\ \A t \in despesas, status \in Statuses :
               UpdateDespesa(t, t.category, status, Today, FALSE) => Same
          /\ \A t \in despesas : ToggleStatus(t, FALSE) => Same
          /\ \A idSet \in SUBSET PayableIds : MarkAsPaid(idSet, Today, FALSE) => Same
          /\ ConfirmYes(FALSE) => Same
          /\ \A name \in NameInputs, budgetText \in BudgetTexts :
               AddCategory(name, "expense", budgetText, FALSE) => Same
          /\ \A c \in categories, budgetText \in BudgetTexts :
               EditCategory(c.id, c.name, c.type, budgetText, FALSE) => Same ]_vars

\* A status change was refused by the storage while the list holds the income
\* it was about, still unpaid in memory and in the storage.
C16_Witness ==
  /\ last = Trace({"updateTransaction"}, "error")
  /\ \E t \in despesas :
       /\ t.type = "income" /\ t.status = "pending"
       /\ \E r \in dbTx : r.id = t.id /\ r.status = "pending"

\* C17: a category creation that fails validation (its name equals, ignoring
\* case, the name of a category the context already has, or its budget is
\* missing or not above zero) issues no storage call and leaves the in-memory
\* categories, and the stored ones, as they were.
C17_RejectedCreationCallsNothing ==
  [][ \A name \in NameInputs, type \in CategoryTypes, budgetText \in BudgetTexts, ok \in BOOLEAN :
        LET existing == { ToLowerCase(c.name) : c \in categories } \cup
                        { ToLowerCase(r.name) :
                            r \in { x \in dbCats : x.data_context_id = user.dataContextId } }
            invalid == \/ ToLowerCase(name) \in existing
                       \/ budgetText = ""
                       \/ ParseFloat(budgetText) <= 0
        IN  (invalid /\ AddCategory(name, type, budgetText, ok)) =>
              /\ last'.calls = {}
              /\ categories' = categories
              /\ dbCats' = dbCats ]_vars

\* The creation of "casa" was refused for its name while the context holds "Casa".
C17_Witness ==
  /\ last = Trace({}, "duplicate")
  /\ "casa" \in NameInputs
  /\ \E c \in categories : c.name = "Casa"
  /\ ~\E c \in categories : c.name = "casa"

\* C18: within one run of loadData, seedCategories is sent only when the
\* fetch of the categories of that run has answered, successfully and with no
\* row; it is never sent when the fetch fails or returns a row; and a run that
\* seeds assigns the in-memory sets only when the seed has answered.
C18_SeedOnlyAfterEmptyFetch ==
  [][ /\ (seedJob = NullObj /\ seedJob' # NullObj) =>
            /\ loadingData
            /\ last' = Trace({"fetchCategories", "fetchTransactions"}, "none")
            /\ FetchCategories(user.dataContextId, authSession) = {}
            /\ seedJob'.dataContextId = user.dataContextId
            /\ categories' = categories /\ despesas' = despesas
      /\ "seedCategories" \in last'.calls => (seedJob # NullObj /\ seedJob' = NullObj)
      /\ \A okFetch \in BOOLEAN :
            ( /\ LoadData(MaxReseeds, okFetch)
              /\ (~okFetch \/ FetchCategories(user.dataContextId, authSession) # {}) ) =>
              /\ seedJob' = NullObj
              /\ dbCats' = dbCats
              /\ ~loadingData'
      /\ seedJob # NullObj =>
            /\ categories = {} /\ despesas = {}
            /\ (categories' # categories \/ despesas' # despesas) =>
                  last' = Trace({"seedCategories"}, "success") ]_vars

\* A run of loadData found the context without categories, seeded it, and
\* shows the starter set.
C18_Witness ==
  /\ last = Trace({"seedCategories"}, "success")
  /\ ~loadingData /\ ~connectionError
  /\ { c.name : c \in categories } = { INITIAL_CATEGORIES[k].name : k \in DOMAIN INITIAL_CATEGORIES }
  /\ ids.seeds = 1

\* C19: a data context never holds two copies of a starter category, whatever
\* the loads, category deletions and concurrent loads of two sessions on it.
C19_NoStarterCategoryTwice ==
  \A r1 \in dbCats, r2 \in dbCats :
    ( /\ r1.data_context_id = r2.data_context_id
      /\ r1.name = r2.name
      /\ \E k \in DOMAIN INITIAL_CATEGORIES : INITIAL_CATEGORIES[k].name = r1.name )
      => r1.id = r2.id

\* the sum of the amounts of the list's positions in idx
RECURSIVE AmountOf(_, _)
AmountOf(list, idx) ==
  IF idx = {} THEN 0
  ELSE LET i == CHOOSE j \in idx : TRUE
       IN  list[i].amount + AmountOf(list, idx \ {i})

\* the positions of the list dated in the month, of one type and status
PositionsOf(list, filterMonth, filterYear, type, status) ==
  { i \in DOMAIN list :
      /\ list[i].date = <<filterYear, filterMonth + 1, list[i].date[3]>>
      /\ list[i].type = type
      /\ list[i].status = status }

\* C20: for every transaction list and month, the summary has income = the sum
\* of the paid incomes dated in the month, expense = the sum of its paid
\* expenses, pending = the sum of its pending expenses, total = income -
\* expense, and a savings rate of 0 when income is 0; pending incomes and the
\* transactions of other months count in no figure.
C20_DashboardFigures ==
  built # NullObj =>
    LET Of(type, status) ==
          AmountOf(fnIn.despesas,
                   PositionsOf(fnIn.despesas, fnIn.filterMonth, fnIn.filterYear, type, status))
    IN  /\ built.income = Of("income", "paid")
        /\ built.expense = Of("expense", "paid")
        /\ built.pending = Of("expense", "pending")
        /\ built.total = built.income - built.expense
        /\ built.income = 0 => built.savingsRate.num = 0

\* A summary of a month with a paid income, a pending income and a transaction
\* of another month in the list, where the figures differ from the plain totals.
C20_Witness ==
  /\ built # NullObj
  /\ built.income > 0
  /\ \E i \in DOMAIN fnIn.despesas, j \in DOMAIN fnIn.despesas, k \in DOMAIN fnIn.despesas :
       /\ fnIn.despesas[i].type = "income" /\ fnIn.despesas[i].status = "paid"
       /\ InFilter(fnIn.despesas[i], fnIn.filterMonth, fnIn.filterYear)
       /\ fnIn.despesas[j].type = "income" /\ fnIn.despesas[j].status = "pending"
       /\ InFilter(fnIn.despesas[j], fnIn.filterMonth, fnIn.filterYear)
       /\ ~InFilter(fnIn.despesas[k], fnIn.filterMonth, fnIn.filterYear)
       /\ built.income = fnIn.despesas[i].amount

\* C21: in the category budget report every row belongs to a category of kind
\* expense or both (and each such category has its row), spent counts only the
\* expense transactions whose category is the row's name, the percentage used
\* is 100 when the budget is 0 and something was spent and 0 when the budget is
\* 0 and nothing was spent, and the rows are in non-increasing order of it.
C21_BudgetReportRows ==
  built # NullObj =>
    LET data == built.data
        cats == fnIn.categories
        SpentOn(name) ==
          AmountOf(fnIn.expenses,
                   { k \in DOMAIN fnIn.expenses :
                       fnIn.expenses[k].category = name /\ fnIn.expenses[k].type = "expense" })
    IN  /\ { data[i].id : i \in DOMAIN data } =
             { cats[k].id : k \in { j \in DOMAIN cats : cats[j].type \in {"expense", "both"} } }
        /\ \A i \in DOMAIN data, j \in DOMAIN data : data[i].id = data[j].id => i = j
        /\ \A i \in DOMAIN data :
             /\ data[i].name = cats[data[i].id].name
             /\ data[i].budget = cats[data[i].id].budget
             /\ data[i].spent = SpentOn(data[i].name)
             /\ (data[i].budget = 0 /\ data[i].spent > 0) => data[i].percentage = [num |-> 100, den |-> 1]
             /\ (data[i].budget = 0 /\ data[i].spent = 0) => data[i].percentage = [num |-> 0, den |-> 1]
        /\ \A i \in DOMAIN data, j \in DOMAIN data :
             i < j => data[i].percentage.num * data[j].percentage.den
                        >= data[j].percentage.num * data[i].percentage.den

\* A report of two rows that the sort exchanged: the category without budget
\* was spent on and comes before the first category, which has a budget and
\* an income under its name that is not counted as spent.
C21_Witness ==
  /\ built # NullObj
  /\ Len(built.data) = 2
  /\ built.data[1].id = 2 /\ built.data[1].budget = 0 /\ built.data[1].spent > 0
  /\ built.data[2].id = 1 /\ built.data[2].budget > 0 /\ built.data[2].spent = 0
  /\ \E k \in DOMAIN fnIn.expenses :
       fnIn.expenses[k].type = "income" /\ fnIn.expenses[k].category = built.data[2].name

\* C22: when the financial-analysis call fails, no exception passes the call
\* site, and an analysis that was displayed before the failing call is still
\* the displayed analysis after it.
C22_FailedAnalysisKeepsPrior ==
  [][ \A answer \in {"noText", "notJson", "rejected"} :
        AnalyzeSettles(answer) =>
          /\ ~insight'.error
          /\ insight.analysis # NullObj => insight'.analysis = insight.analysis ]_vars

\* C23: after a successful markAsPaid(ids, d), every transaction whose id is in
\* ids is paid with payment date d, in the storage and in memory, and every
\* other transaction is what it was, in both.
C23_MarkAsPaidAllListedOnly ==
  /\ [][ \A idSet \in SUBSET PayableIds, d \in PaymentDates :
           MarkAsPaid(idSet, d, TRUE) =>
             /\ \A t \in despesas' : t.id \in idSet => (t.status = "paid" /\ t.paymentDate = d)
             /\ \A r \in dbTx' : r.id \in idSet => (r.status = "paid" /\ r.payment_date = d)
             /\ { t \in despesas' : t.id \notin idSet } = { t \in despesas : t.id \notin idSet }
             /\ { r \in dbTx' : r.id \notin idSet } = { r \in dbTx : r.id \notin idSet }
             /\ { t.id : t \in despesas' } = { t.id : t \in despesas }
             /\ { r.id : r \in dbTx' } = { r.id : r \in dbTx } ]_vars
  /\ [][ \A idSet \in SUBSET PayableIds, d \in PaymentDates :
          MarkAsPaid(idSet, d, FALSE) => (dbTx' = dbTx /\ despesas' = despesas) ]_vars

\* One of two listed bills was paid with a date typed by the user: it is paid
\* in memory and in the storage, the other is pending in both.
C23_Witness ==
  /\ last = Trace({"markAsPaid"}, "success")
  /\ \E t \in despesas, u \in despesas :
       /\ t.status = "paid" /\ t.paymentDate = Earlier
       /\ u.status = "pending"
       /\ \E r \in dbTx : r.id = t.id /\ r.status = "paid" /\ r.payment_date = Earlier
       /\ \E r \in dbTx : r.id = u.id /\ r.status = "pending"

\* C24: when a paid expense is changed to pending and the storage update
\* succeeds, the stored row has no payment date, as the in-memory record has none.
C24_PendingClearsStoredPaymentDate ==
  [][ \A t \in despesas, paymentDate \in PaymentDates :
        \A category \in { c.name : c \in AvailableCategories(t.type) } \cup { t.category } :
          ( /\ t.type = "expense" /\ t.status = "paid"
            /\ UpdateDespesa(t, category, "pending", paymentDate, TRUE) ) =>
            /\ \A u \in despesas' : u.id = t.id => Absent(u.paymentDate)
            /\ \A r \in dbTx' : r.id = t.id => Absent(r.payment_date) ]_vars

\* C25: when at least one insert of an installment batch fails, none of the
\* batch's records is added to the in-memory transactions, and the installments
\* whose insert succeeded stay in the storage: a load of the context would
\* return them, though the session does not show them.
C25_FailedBatchShowsNoneKeepsStored ==
  [][ ( /\ AddDespesaSettles
        /\ \E k \in DOMAIN addJob.items : addJob.items[k].state = "failed" ) =>
        /\ despesas' = despesas
        /\ last'.toast = "error"
        /\ dbTx' = dbTx
        /\ \A k \in DOMAIN addJob.items :
             LET row == TxRow(addJob.items[k].d, addJob.dataContextId)
             IN  /\ row.id \notin { t.id : t \in despesas' }
                 /\ addJob.items[k].state = "ok" =>
                       /\ row \in dbTx'
                       /\ DespesaOfRow(row) \in FetchTransactions(addJob.dataContextId, authSession) ]_vars

\* After a batch of two whose first insert failed, the page was loaded again
\* and lists the second installment alone.
C25_Witness ==
  /\ ~loadingData /\ ~connectionError
  /\ "fetchTransactions" \in last.calls
  /\ \E t \in despesas :
       /\ t.installments # NullObj
       /\ t.installments.current = 2 /\ t.installments.total = 2
       /\ despesas = {t}
       /\ ~\E r \in dbTx : r.installments # NullObj /\ r.installments.current = 1

\* C26: for every transaction list, every year and every host time zone,
\* element m of the yearly expense series equals expense + pending of the
\* dashboard summary for month m of that year.
C26_ChartMatchesDashboard ==
  built # NullObj =>
    \A m \in 1..12 :
      LET summary == DashboardData(fnIn.despesas, m - 1, fnIn.filterYear)
      IN  built.data[m] = summary.expense + summary.pending

\* C27: every transaction in memory has a category that is the name of a
\* category in memory, whatever transactions and categories were added,
\* edited, renamed or deleted in the session.
C27_TransactionsNameACategory ==
  \A t \in despesas : \E c \in categories : c.name = t.category

\* the rows a step stored, removed or changed
ChangedRows(before, after) == (before \ after) \cup (after \ before)

\* C28: every storage mutation issued while an account is the active one
\* changes only rows of that account's data context; while an isolated member
\* is active the rows of its owner's context stay as they are.
C28_MutationsStayInContext ==
  [][ user # NullObj =>
        \A r \in ChangedRows(dbTx, dbTx') \cup ChangedRows(dbCats, dbCats') :
          r.data_context_id = user.dataContextId ]_vars

\* An isolated member is active and has just deleted one of its transactions,
\* while the storage holds a transaction of its owner's context.
C28_Witness ==
  /\ user # NullObj
  /\ ~Absent(user.parentId)
  /\ user.dataContextId = user.id
  /\ last = Trace({"deleteTransaction"}, "success")
  /\ \E r \in dbTx : r.data_context_id = user.parentId

\* C29: under the access policy of the storage, every account with a parent
\* reference has a parent that has none, and no member account has members of
\* its own, in the storage or in the active account object, whatever
\* registrations, logins, member additions (also while a member is the active
\* account) and switches took place.
C29_MembersHaveNoMembers ==
  /\ \A r \in dbUsers :
       ~Absent(r.parent_id) =>
         /\ \E p \in dbUsers : p.id = r.parent_id /\ Absent(p.parent_id)
         /\ ~\E c \in dbUsers : c.parent_id = r.id
  /\ (user # NullObj /\ ~Absent(user.parentId)) => user.members = {}

\* A member is the active account and its attempt to add a member was refused.
C29_Witness ==
  /\ user # NullObj
  /\ ~Absent(user.parentId)
  /\ last = Trace({"insertMember"}, "error")
  /\ \E r \in dbUsers : r.id = user.id /\ r.parent_id = authSession

\* C30: once a switch has made another account the active one, the in-memory
\* categories and transactions are empty while its load runs, and otherwise
\* hold only rows fetched for that account's data context: nothing loaded
\* under the account that was active before is shown for the new one.
C30_SetsBelongToActiveAccount ==
  /\ [](user # NullObj =>
          /\ loadingData => (categories = {} /\ despesas = {})
          /\ \A c \in categories :
               \E r \in dbCats : r.id = c.id /\ r.data_context_id = user.dataContextId
          /\ \A t \in despesas :
               \E r \in dbTx : r.id = t.id /\ r.data_context_id = user.dataContextId)
  /\ [][ (user # NullObj /\ user' # NullObj /\ user'.id # user.id) =>
            (categories' = {} /\ despesas' = {} /\ loadingData' /\ seedJob' = NullObj) ]_vars

\* An isolated member was switched to and its load is over: the lists show its
\* own categories and no transaction, while the storage holds a transaction of
\* the owner's context, which was listed before the switch.
C30_Witness ==
  /\ user # NullObj
  /\ ~Absent(user.parentId)
  /\ user.dataContextId = user.id
  /\ ~loadingData /\ ~connectionError
  /\ categories # {} /\ despesas = {}
  /\ \E r \in dbTx : r.data_context_id = user.parentId

====
